---- MODULE Spec2Model ----
(***************************************************************************)
(* Adaptive multi-provider AI request scheduler of accessibot-app.         *)
(*                                                                         *)
(* Part 1: BatchProcessor (priority queue, size/timer flush, adaptive      *)
(*         batch size and delay), from the priority version of             *)
(*         rate-limiter.ts.                                                *)
(* Part 2: AIProviderManager (provider selection, fallback, circuit        *)
(*         breaker), from ai-providers.ts.                                 *)
(* Part 3: the cache of fixes (cache.ts) and the RateLimiter, with a clock  *)
(*         in milliseconds; enhanceIssuesWithAI and getAIFixForIssue       *)
(*         (cache, demo mode, rate limiter, scheduler), from ai-service.ts.*)
(* Part 4: processBatchAIRequests, parseBatchResponse and                  *)
(*         fallbackIndividualRequests, the processor of the scheduler.     *)
(***************************************************************************)
EXTENDS Integers, Sequences, FiniteSets, TLC

VARIABLES
    config,            \* BatchProcessor.config
    queue,             \* BatchProcessor.queue: PriorityBatchItem[]
    resolvers,         \* BatchProcessor.resolvers
    currentBatchSize,  \* BatchProcessor.currentBatchSize
    currentDelayMs,    \* BatchProcessor.currentDelayMs
    timeoutId,         \* BatchProcessor.timeoutId (NoTimer = null)
    timers,            \* timers armed with setTimeout and neither fired nor cleared
    timerCount,        \* number of setTimeout calls so far (source of timer ids)
    inflight,          \* processBatch invocations suspended at `await this.processor`
    flushCount,        \* number of processor calls started so far
    stats,             \* BatchProcessor.stats
    responseTimes,     \* BatchProcessor.responseTimes
    batchCount,        \* BatchProcessor.batchCount
    promise,           \* promise[i]: the promise returned by the i-th add call
    keys,              \* the API keys configured (OpenAIKey, AnthropicKey, GoogleKey)
    isAvailable,       \* AIProvider.isAvailable of each provider of the manager
    providerStats,     \* AIProviderManager.providerStats: successes and failures
    reenable,          \* pending re-enable timers (lines 302-305), per provider
    calls,             \* executeWithFallback calls suspended at `await generateText`
    lastResult,        \* what the executeWithFallback call that ended last returned or threw
    callCount,         \* number of executeWithFallback calls so far
    issues,            \* the AccessibilityIssue[] passed to enhanceIssuesWithAI
    cache,             \* the rows of ai_fixes
    run,               \* position of the enhanceIssuesWithAI call
    pc,                \* pc[i]: the await at which getAIFixForIssue(issues[i]) stands
    fixOf,             \* fixOf[i]: result.fixedCode awaiting cacheFix
    promiseOf,         \* promiseOf[i]: the promise aiBatchProcessor.add returned
    recorded,          \* created_at of the rows of rate_limit_requests for 'openai-api'
    now,               \* the clock: Date.now(), in milliseconds
    askedAt,           \* askedAt[i]: the time the running cache or limiter call of issue i took
    script,            \* the cache and rate-limiter calls of a direct caller, in order
    direct,            \* the call of its script the direct caller awaits
    reply,             \* what the last call of the direct caller returned
    work               \* the processBatchAIRequests calls that have not returned yet

bvars == <<config, queue, resolvers, currentBatchSize, currentDelayMs, timeoutId,
           timers, timerCount, inflight, flushCount, stats, responseTimes,
           batchCount, promise>>

pvars == <<keys, isAvailable, providerStats, reenable, calls, lastResult, callCount>>

svars == <<issues, cache, run, pc, fixOf, promiseOf, recorded, now, askedAt,
           script, direct, reply, work>>

vars == <<bvars, pvars, svars>>

-----------------------------------------------------------------------------
(* Bounds of the model *)

\* add calls per run
MaxAdds == 4

\* executeWithFallback calls per run
MaxCalls == 2

\* advances of the clock per run
MaxTicks == 3

\* calls of a direct caller of the cache or of the rate limiter per run
MaxScript == 3

-----------------------------------------------------------------------------
(* Small helpers *)

Min(a, b) == IF a <= b THEN a ELSE b
Max(a, b) == IF a >= b THEN a ELSE b

Range(s) == {s[i] : i \in 1..Len(s)}

RECURSIVE SumSeq(_)
SumSeq(s) == IF s = <<>> THEN 0 ELSE Head(s) + SumSeq(Tail(s))

\* Array.prototype.splice(idx, 0, e) with a 0-based idx
SpliceIn(s, idx, e) == SubSeq(s, 1, idx) \o <<e>> \o SubSeq(s, idx + 1, Len(s))

-----------------------------------------------------------------------------
(* Configuration *)

\* batchProcessorConfig of ai-service.ts; maxErrorRate 0.2 is kept in percent
ProductionConfig ==
    [ initialBatchSize     |-> 3,
      minBatchSize         |-> 1,
      maxBatchSize         |-> 8,
      initialDelayMs       |-> 2000,
      minDelayMs           |-> 1000,
      maxDelayMs           |-> 5000,
      targetResponseTimeMs |-> 15000,
      maxErrorRatePct      |-> 20,
      adjustmentInterval   |-> 3 ]

\* The constructor takes any BatchProcessorConfig. QueueConfigs: the production
\* one and the one with a batch of four; AdjustConfigs: the production one and
\* variants that adjust after every batch, start at the smallest size or start
\* near the largest size and at the smallest delay.
QueueConfigs ==
    { ProductionConfig,
      [ProductionConfig EXCEPT !.initialBatchSize = 4] }

AdjustConfigs ==
    { ProductionConfig,
      [ProductionConfig EXCEPT !.adjustmentInterval = 1],
      [ProductionConfig EXCEPT !.initialBatchSize = 1],
      [ProductionConfig EXCEPT !.initialBatchSize = 7, !.initialDelayMs = 1000,
                               !.adjustmentInterval = 1] }

\* severities high, medium, low (getPriorityFromSeverity)
Priorities == {1, 5, 10}

\* Date.now() - startTime of a batch, in ms: below half the target and above
\* the target (their averages also fall in between)
ResponseTimes == {5000, 20000}

\* the response times below half the target
FastResponses == {rt \in ResponseTimes : 2 * rt < ProductionConfig.targetResponseTimeMs}

NoTimer == 0

Undefined == "undefined"
NoResultError == "No result for batch item"
ProcessorError == "processor error"

Pending == [state |-> "pending", value |-> "", handed |-> 0, settled |-> 0]

\* the result a processor produces for the item at position i of its input
ResultFor(i) == "result " \o ToString(i)

\* What a processor may return for a batch of n items: one result per item or
\* one fewer, each the result for its position, the first possibly undefined.
ResultLists(n) ==
    { [i \in 1..m |-> IF i = hole THEN Undefined ELSE ResultFor(i)] :
        m \in {k \in {n - 1, n} : k >= 0}, hole \in 0..1 }

\* a processor that returns one defined result per item
FullResults(n) == [i \in 1..n |-> ResultFor(i)]

-----------------------------------------------------------------------------
(* BatchProcessor *)

\* add, lines 143-147: the index found by the while loop
RECURSIVE InsertIndexFrom(_, _, _)
InsertIndexFrom(q, priority, insertIndex) ==
    IF insertIndex < Len(q) /\ q[insertIndex + 1].priority >= priority
    THEN InsertIndexFrom(q, priority, insertIndex + 1)
    ELSE insertIndex

\* mutant: the loop compares with > and inserts before items of equal priority
InsertIndexBeforeEqual(q, priority) ==
    Cardinality({i \in 1..Len(q) : q[i].priority > priority})

InsertIndex(q, priority) == InsertIndexFrom(q, priority, 0)

\* mutant: the batch is flushed only once it exceeds the batch size
BatchFullWhenExceeded(q) == Len(q) > currentBatchSize

\* add, line 155: this.queue.length >= this.currentBatchSize
BatchFull(q) == Len(q) >= currentBatchSize

\* mutant: the timer is cleared but timeoutId keeps its id
TimeoutIdKept == timeoutId

\* processBatch, lines 175-178: timeoutId once the pending timer is cleared
TimeoutIdAfterClear == NoTimer

\* processBatch, lines 172-173, with slice(batchSize) in place of splice: the
\* array keeps its first batchSize elements
SplicedKept(s, batchSize) == s

\* processBatch, lines 172-173: what splice(0, batchSize) leaves in the array
Spliced(s, batchSize) == SubSeq(s, batchSize + 1, Len(s))

\* add, line 152, with the resolver pushed at the end of the array
ResolverIndexAtEnd(insertIndex) == Len(resolvers)

\* add, line 152: the resolver is inserted at the same position as the item
ResolverIndex(insertIndex) == insertIndex

\* promise settle: only the first resolve/reject takes effect
Settle(p, st, v) ==
    IF p.state = "pending"
    THEN [p EXCEPT !.state = st, !.value = v, !.settled = @ + 1]
    ELSE [p EXCEPT !.settled = @ + 1]

\* processBatch, lines 169-187: up to the await of the processor call, on the
\* queue q, the resolvers rs, the promises ps and the armed timers tmrs
ProcessBatch(q, rs, ps, tmrs) ==
    IF Len(q) = 0
    THEN /\ queue' = q
         /\ resolvers' = rs
         /\ promise' = ps
         /\ timers' = tmrs
         /\ UNCHANGED <<timeoutId, inflight, flushCount>>
    ELSE LET batchSize == Min(currentBatchSize, Len(q))
             currentBatch == SubSeq(q, 1, batchSize)
             currentResolvers == SubSeq(rs, 1, batchSize)
         IN  /\ queue' = Spliced(q, batchSize)
             /\ resolvers' = Spliced(rs, batchSize)
             /\ timeoutId' = TimeoutIdAfterClear
             /\ timers' = IF timeoutId # NoTimer
                          THEN {t \in tmrs : t.id # timeoutId}
                          ELSE tmrs
             /\ flushCount' = flushCount + 1
             /\ inflight' = inflight \cup
                    {[fid |-> flushCount + 1, batch |-> currentBatch,
                      resolvers |-> currentResolvers]}
             /\ promise' = [i \in DOMAIN ps |->
                              IF \E k \in 1..batchSize : currentBatch[k].id = i
                              THEN [ps[i] EXCEPT !.handed = @ + 1]
                              ELSE ps[i]]

\* add(item, priority), lines 134-166
Add(priority) ==
    /\ Len(promise) < MaxAdds
    /\ LET id == Len(promise) + 1
           insertIndex == InsertIndex(queue, priority)
           q == SpliceIn(queue, insertIndex, [id |-> id, priority |-> priority])
           rs == SpliceIn(resolvers, ResolverIndex(insertIndex),
                          [id |-> id, priority |-> priority])
           ps == Append(promise, Pending)
       IN  IF BatchFull(q)
           THEN /\ ProcessBatch(q, rs, ps, timers)
                /\ UNCHANGED timerCount
           ELSE /\ queue' = q
                /\ resolvers' = rs
                /\ promise' = ps
                /\ IF timeoutId = NoTimer
                   THEN /\ timerCount' = timerCount + 1
                        /\ timeoutId' = timerCount + 1
                        /\ timers' = timers \cup
                              {[id |-> timerCount + 1, delay |-> currentDelayMs]}
                   ELSE UNCHANGED <<timerCount, timeoutId, timers>>
                /\ UNCHANGED <<inflight, flushCount>>
    /\ UNCHANGED <<config, currentBatchSize, currentDelayMs, stats, responseTimes,
                   batchCount, pvars>>

\* the setTimeout callback of lines 160-162 and 220-222
TimerFires(t) ==
    /\ t \in timers
    /\ ProcessBatch(queue, resolvers, promise, timers \ {t})
    /\ UNCHANGED <<config, currentBatchSize, currentDelayMs, timerCount, stats,
                   responseTimes, batchCount, pvars>>

\* updateStats, lines 232-236: the rolling window of response times
ResponseWindow == 10

UpdatedResponseTimes(responseTime) ==
    LET pushed == Append(responseTimes, responseTime)
    IN  IF Len(pushed) > ResponseWindow THEN Tail(pushed) ELSE pushed

\* updateStats, lines 226-241. averageResponseTime is avgSum / avgLen and
\* errorRate is totalErrors / totalProcessed.
UpdateStats(responseTime, hasError) ==
    LET rts == UpdatedResponseTimes(responseTime)
    IN  [ totalProcessed   |-> stats.totalProcessed + 1,
          totalErrors      |-> stats.totalErrors + (IF hasError THEN 1 ELSE 0),
          avgSum           |-> SumSeq(rts),
          avgLen           |-> Len(rts),
          currentBatchSize |-> currentBatchSize ]

\* adjustBatchParameters, line 250: errorRate > maxErrorRate
ErrorRateHigh(st) ==
    st.totalErrors * 100 > config.maxErrorRatePct * st.totalProcessed

\* line 261: averageResponseTime > targetResponseTimeMs
ResponseSlow(st) ==
    st.avgSum > config.targetResponseTimeMs * st.avgLen

\* line 268: averageResponseTime < target * 0.5 && errorRate < maxErrorRate * 0.5
GoodPerformance(st) ==
    /\ 2 * st.avgSum < config.targetResponseTimeMs * st.avgLen
    /\ st.totalErrors * 200 < config.maxErrorRatePct * st.totalProcessed

\* mutant: no floor at minBatchSize
ReducedForErrorsNoFloor(size) == (size * 7) \div 10

\* lines 252-255
ReducedForErrors(size) == Max(config.minBatchSize, (size * 7) \div 10)

\* lines 256-259
IncreasedDelay(delay) == Min(config.maxDelayMs, (delay * 3) \div 2)

\* lines 263-266
ReducedForSlowness(size) == Max(config.minBatchSize, (size * 8) \div 10)

\* mutant: no cap at maxBatchSize
IncreasedBatchSizeNoCap(size) == (size * 12) \div 10

\* lines 270-273, with Math.ceil in place of Math.floor
IncreasedBatchSizeCeil(size) == Min(config.maxBatchSize, (size * 12 + 9) \div 10)

\* lines 270-273
IncreasedBatchSize(size) == Min(config.maxBatchSize, (size * 12) \div 10)

\* lines 274-277
ReducedDelay(delay) == Max(config.minDelayMs, (delay * 9) \div 10)

\* adjustBatchParameters, lines 250-279, with the test for slowness before
\* the test for errors
AdjustBranchSlowFirst(st) ==
    IF ResponseSlow(st) THEN "slow"
    ELSE IF ErrorRateHigh(st) THEN "error"
    ELSE IF GoodPerformance(st) THEN "good"
    ELSE "none"

\* adjustBatchParameters, lines 243-282: the branch taken
AdjustBranch(st) ==
    IF ErrorRateHigh(st) THEN "error"
    ELSE IF ResponseSlow(st) THEN "slow"
    ELSE IF GoodPerformance(st) THEN "good"
    ELSE "none"

AdjustedBatchSize(st, size) ==
    CASE AdjustBranch(st) = "error" -> ReducedForErrors(size)
      [] AdjustBranch(st) = "slow"  -> ReducedForSlowness(size)
      [] AdjustBranch(st) = "good"  -> IncreasedBatchSize(size)
      [] OTHER -> size

AdjustedDelayMs(st, delay) ==
    CASE AdjustBranch(st) = "error" -> IncreasedDelay(delay)
      [] AdjustBranch(st) = "good"  -> ReducedDelay(delay)
      [] OTHER -> delay

\* processBatch, line 214, with the adjustment run after every batch
AdjustmentAlwaysDue(count) == TRUE

\* processBatch, line 214: this.batchCount % adjustmentInterval === 0
AdjustmentDue(count) == count % config.adjustmentInterval = 0

\* mutant: no check for undefined, a hole resolves the promise with undefined
SettleIgnoringHoles(p, results, i) ==
    IF i <= Len(results)
    THEN Settle(p, "resolved", results[i])
    ELSE Settle(p, "rejected", NoResultError)

\* processBatch, lines 193-199: the outcome of resolver i of a batch
SettleFromResults(p, results, i) ==
    IF i <= Len(results) /\ results[i] # Undefined
    THEN Settle(p, "resolved", results[i])
    ELSE Settle(p, "rejected", NoResultError)

\* mutant: the catch block settles nothing
SettleFromErrorDropped(p, error) == p

\* processBatch, lines 206-208
SettleFromError(p, error) == Settle(p, "rejected", error)

\* processBatch, line 219, with the remaining items left without a timer
NothingRemains(q) == FALSE

\* processBatch, line 219: this.queue.length > 0
ItemsRemain(q) == Len(q) > 0

\* processBatch, lines 211-223: after the try/catch, with the updated stats st
AfterBatch(st) ==
    /\ batchCount' = batchCount + 1
    /\ IF AdjustmentDue(batchCount + 1)
       THEN /\ currentBatchSize' = AdjustedBatchSize(st, currentBatchSize)
            /\ currentDelayMs' = AdjustedDelayMs(st, currentDelayMs)
            /\ stats' = [st EXCEPT !.currentBatchSize =
                                      AdjustedBatchSize(st, currentBatchSize)]
       ELSE /\ UNCHANGED <<currentBatchSize, currentDelayMs>>
            /\ stats' = st
    /\ IF ItemsRemain(queue)
       THEN /\ timerCount' = timerCount + 1
            /\ timeoutId' = timerCount + 1
            /\ timers' = timers \cup {[id |-> timerCount + 1, delay |-> currentDelayMs']}
       ELSE UNCHANGED <<timerCount, timeoutId, timers>>

\* processBatch, lines 187-199 and 211-223: the processor call of f resolves
ProcessorReturns(f, results, responseTime) ==
    /\ f \in inflight
    /\ inflight' = inflight \ {f}
    /\ responseTimes' = UpdatedResponseTimes(responseTime)
    /\ promise' = [i \in DOMAIN promise |->
                     IF \E k \in 1..Len(f.resolvers) : f.resolvers[k].id = i
                     THEN SettleFromResults(promise[i], results,
                              CHOOSE k \in 1..Len(f.resolvers) : f.resolvers[k].id = i)
                     ELSE promise[i]]
    /\ AfterBatch(UpdateStats(responseTime, FALSE))
    /\ UNCHANGED <<config, queue, resolvers, flushCount, pvars>>

\* processBatch, lines 200-223: the processor call of f throws or rejects
ProcessorThrows(f, responseTime) ==
    /\ f \in inflight
    /\ inflight' = inflight \ {f}
    /\ responseTimes' = UpdatedResponseTimes(responseTime)
    /\ promise' = [i \in DOMAIN promise |->
                     IF \E k \in 1..Len(f.resolvers) : f.resolvers[k].id = i
                     THEN SettleFromError(promise[i], ProcessorError)
                     ELSE promise[i]]
    /\ AfterBatch(UpdateStats(responseTime, TRUE))
    /\ UNCHANGED <<config, queue, resolvers, flushCount, pvars>>

InitBatch(configs) ==
    /\ config \in configs
    /\ queue = <<>>
    /\ resolvers = <<>>
    /\ currentBatchSize = config.initialBatchSize
    /\ currentDelayMs = config.initialDelayMs
    /\ timeoutId = NoTimer
    /\ timers = {}
    /\ timerCount = 0
    /\ inflight = {}
    /\ flushCount = 0
    /\ stats = [totalProcessed |-> 0, totalErrors |-> 0, avgSum |-> 0, avgLen |-> 1,
                currentBatchSize |-> config.initialBatchSize]
    /\ responseTimes = <<>>
    /\ batchCount = 0
    /\ promise = <<>>

-----------------------------------------------------------------------------
(* AIProviderManager *)

\* initializeProviders, lines 31-110. costPerToken is kept in 1/8000 dollar
\* per 1000 tokens (0.015 = 120/8000, 0.0015 = 12/8000, 0.001 = 8/8000,
\* 0.0035 = 28/8000, 0.000375 = 3/8000); cheap names include "Mini", "Haiku"
\* or "Flash".
Provider(key, cost, maxTokens, priority, mini, haiku, flash) ==
    [key |-> key, costPerToken |-> cost, maxTokens |-> maxTokens,
     priority |-> priority, mini |-> mini, haiku |-> haiku, flash |-> flash]

ProviderTable ==
    ("OpenAI"          :> Provider("OpenAIKey", 120, 4096, 1, FALSE, FALSE, FALSE)) @@
    ("OpenAI-Mini"     :> Provider("OpenAIKey", 12, 16384, 2, TRUE, FALSE, FALSE)) @@
    ("Anthropic"       :> Provider("AnthropicKey", 120, 8192, 3, FALSE, FALSE, FALSE)) @@
    ("Anthropic-Haiku" :> Provider("AnthropicKey", 8, 8192, 4, FALSE, TRUE, FALSE)) @@
    ("Google"          :> Provider("GoogleKey", 28, 8192, 5, FALSE, FALSE, FALSE)) @@
    ("Google-Flash"    :> Provider("GoogleKey", 3, 8192, 6, FALSE, FALSE, TRUE))

ProviderNames == DOMAIN ProviderTable

AllKeys == {"OpenAIKey", "AnthropicKey", "GoogleKey"}

\* the configurations of keys a manager is constructed with
KeySets == { {}, {"OpenAIKey"}, AllKeys }

RequestTypes == {"individual", "batch"}

\* totalEstimatedTokens (in thousands) and complexity of the calls: 1000 tokens
\* are within every maxTokens, 9000 only within that of OpenAI-Mini
Requests == { <<1, "simple">>, <<1, "medium">>, <<1, "complex">>, <<9, "medium">> }

NoProvider == "none"

\* initializeProviders, lines 115-118: the providers of a request type
ProvidersOf(type) ==
    IF type = "individual"
    THEN {n \in ProviderNames : ProviderTable[n].key \in keys}
    ELSE {n \in {"OpenAI", "Anthropic", "Google"} : ProviderTable[n].key \in keys}

\* lines 156-158 and 245-247: providers.filter(p => p.isAvailable), with the
\* availability avail
AvailableProviders(avail, type) == {n \in ProvidersOf(type) : avail[n]}

\* selectProvider, lines 166-169: the provider can hold the tokens
WithinTokenLimit(n, tokensK) == tokensK * 1000 <= ProviderTable[n].maxTokens

\* selectProvider, lines 171-185: the complexity filter
MatchesComplexity(n, complexity) ==
    LET provider == ProviderTable[n]
    IN  IF complexity = "simple"
        THEN provider.mini \/ provider.haiku \/ provider.flash
        ELSE IF complexity = "complex"
        THEN ~provider.mini /\ ~provider.flash
        ELSE TRUE

\* selectProvider, lines 165-191
SuitableProviders(avail, type, tokensK, complexity) ==
    LET suitable == {n \in AvailableProviders(avail, type) :
                        WithinTokenLimit(n, tokensK) /\ MatchesComplexity(n, complexity)}
    IN  IF suitable = {} THEN AvailableProviders(avail, type) ELSE suitable

\* selectProvider, lines 195-204: score = estimatedCost + (1 - successRate) * 10
\* as the fraction ScoreNum / (8000 * ScoreDen), on the stats st of a provider;
\* successRate is 0.5 without history
ScoreDen(st) ==
    IF st.successes + st.failures > 0 THEN st.successes + st.failures ELSE 1

ScoreNum(n, st, tokensK) ==
    LET penalty == IF st.successes + st.failures > 0 THEN 10 * st.failures ELSE 5
    IN  tokensK * ProviderTable[n].costPerToken * ScoreDen(st) + penalty * 8000

ScoreLess(pstats, a, b, tokensK) ==
    ScoreNum(a, pstats[a], tokensK) * ScoreDen(pstats[b])
        < ScoreNum(b, pstats[b], tokensK) * ScoreDen(pstats[a])

\* lines 113 and 215-217: the stable sort by score of a list in priority order
\* puts first the lowest score and, among equal scores, the lowest priority number
Precedes(pstats, a, b, tokensK) ==
    \/ ScoreLess(pstats, a, b, tokensK)
    \/ /\ ~ScoreLess(pstats, b, a, tokensK)
       /\ ProviderTable[a].priority < ProviderTable[b].priority

\* initializeProviders, line 113: providers.sort((a, b) => a.priority - b.priority)
ProviderOrder ==
    [i \in 1..Cardinality(ProviderNames) |->
        CHOOSE n \in ProviderNames : ProviderTable[n].priority = i]

\* this.providers.individual or this.providers.batch, in priority order
ProviderList(type) == SelectSeq(ProviderOrder, LAMBDA n : n \in ProvidersOf(type))

\* selectProvider, lines 156-158
AvailableList(avail, type) == SelectSeq(ProviderList(type), LAMBDA n : avail[n])

\* selectProvider, lines 165-191: the filter and the fall-back to every
\* available provider
SuitableList(avail, type, tokensK, complexity) ==
    LET availableProviders == AvailableList(avail, type)
        suitableProviders ==
            SelectSeq(availableProviders,
                      LAMBDA n : /\ WithinTokenLimit(n, tokensK)
                                 /\ MatchesComplexity(n, complexity))
    IN  IF Len(suitableProviders) = 0 THEN availableProviders ELSE suitableProviders

\* the place of n in a list sorted by score when n came after the elements of
\* the list: before every element of higher score (Array.prototype.sort is stable)
InsertByScoreBeforeEqual(sorted, n, pstats, tokensK) ==
    LET before == {i \in 1..Len(sorted) : ScoreLess(pstats, sorted[i], n, tokensK)}
    IN  SpliceIn(sorted, Cardinality(before), n)

InsertByScore(sorted, n, pstats, tokensK) ==
    LET before == {i \in 1..Len(sorted) : ~ScoreLess(pstats, n, sorted[i], tokensK)}
    IN  SpliceIn(sorted, Cardinality(before), n)

\* selectProvider, line 215: scoredProviders.sort((a, b) => a.score - b.score)
RECURSIVE SortByScore(_, _, _)
SortByScore(list, pstats, tokensK) ==
    IF list = <<>>
    THEN <<>>
    ELSE InsertByScore(SortByScore(SubSeq(list, 1, Len(list) - 1), pstats, tokensK),
                       list[Len(list)], pstats, tokensK)

\* selectProvider, lines 151-233, with the availability avail and the stats pstats
SelectProvider(avail, pstats, type, tokensK, complexity) ==
    IF Len(AvailableList(avail, type)) = 0
    THEN NoProvider
    ELSE Head(SortByScore(SuitableList(avail, type, tokensK, complexity),
                          pstats, tokensK))

\* line 254: the number of attempts of a call
MaxAttempts(nAvailable) == Min(3, nAvailable)

\* line 309: the attempt after whose failure the call gives up
LastAttempt(nAvailable) == Min(2, nAvailable - 1)

\* line 297, with failures >= 3 in place of failures > 3
TooManyFailuresFromThree(st) == st.failures > st.successes * 2 /\ st.failures >= 3

\* line 297: the circuit breaker's threshold
TooManyFailures(st) == st.failures > st.successes * 2 /\ st.failures > 3

Last(seq) == seq[Len(seq)]

\* the end of a call: outcome "returned" with the provider whose text is
\* returned, or the message of the error thrown
Result(call, outcome, provider) ==
    [id |-> call.id, outcome |-> outcome, provider |-> provider]

NoResult == [id |-> 0, outcome |-> "none", provider |-> NoProvider]

\* line 310: the error of the provider attempt that failed last, thrown on
ProviderError == "provider error"

\* line 250: throw new Error("No AI providers available")
NoProvidersErrorAsProviderError == ProviderError

NoProvidersError == "No AI providers available"

\* line 257: throw new Error("No suitable AI provider found")
NoSuitableProviderError == "No suitable AI provider found"

\* executeWithFallback, lines 242-270: the call starts; with no provider
\* available it throws, otherwise it selects a provider and awaits the first attempt
StartCall(type, tokensK, complexity) ==
    /\ callCount < MaxCalls
    /\ callCount' = callCount + 1
    /\ LET nAvailable == Cardinality(AvailableProviders(isAvailable, type))
           call == [id |-> callCount + 1, type |-> type, tokensK |-> tokensK,
                    complexity |-> complexity, nAvailable |-> nAvailable,
                    attempt |-> 0, tried |-> <<>>, stale |-> FALSE]
       IN  IF nAvailable = 0
           THEN /\ lastResult' = Result(call, NoProvidersError, NoProvider)
                /\ UNCHANGED calls
           ELSE /\ calls' = calls \cup
                      {[call EXCEPT !.tried =
                          <<SelectProvider(isAvailable, providerStats, type, tokensK,
                                           complexity)>>]}
                /\ UNCHANGED lastResult
    /\ UNCHANGED <<keys, isAvailable, providerStats, reenable, bvars>>

\* executeWithFallback, lines 271-288: generateText resolves
AttemptSucceeds(call) ==
    /\ call \in calls
    /\ providerStats' = [providerStats EXCEPT ![Last(call.tried)].successes = @ + 1]
    /\ calls' = calls \ {call}
    /\ lastResult' = Result(call, "returned", Last(call.tried))
    /\ UNCHANGED <<keys, isAvailable, reenable, callCount, bvars>>

\* lines 302-305: the timers pending once the circuit breaker has set one more
\* for the provider
TimersAfterDisableForgotten(provider) == reenable

TimersAfterDisable(provider) == [reenable EXCEPT ![provider] = @ + 1]

\* executeWithFallback, lines 289-312 and the next turn of the loop, lines
\* 254-270: generateText rejects. The circuit breaker acts on the provider
\* object the attempt was made with: after refreshProviders that object is no
\* longer in this.providers (call.stale), and disabling it shows nowhere.
AttemptFails(call) ==
    /\ call \in calls
    /\ LET provider == Last(call.tried)
           pstats == [providerStats EXCEPT ![provider].failures = @ + 1]
           disable == TooManyFailures(pstats[provider]) /\ ~call.stale
           avail == IF disable THEN [isAvailable EXCEPT ![provider] = FALSE]
                    ELSE isAvailable
           selection == SelectProvider(avail, pstats, call.type, call.tokensK,
                                       call.complexity)
       IN  /\ providerStats' = pstats
           /\ isAvailable' = avail
           /\ reenable' = IF disable THEN TimersAfterDisable(provider)
                          ELSE reenable
           /\ calls' = (calls \ {call}) \cup
                  IF call.attempt # LastAttempt(call.nAvailable) /\ selection # NoProvider
                  THEN {[call EXCEPT !.attempt = @ + 1,
                                     !.tried = Append(@, selection),
                                     !.stale = FALSE]}
                  ELSE {}
           /\ lastResult' =
                  IF call.attempt = LastAttempt(call.nAvailable)
                  THEN Result(call, ProviderError, NoProvider)
                  ELSE IF selection = NoProvider
                  THEN Result(call, NoSuitableProviderError, NoProvider)
                  ELSE lastResult
    /\ UNCHANGED <<keys, callCount, bvars>>

\* the setTimeout callback of lines 302-305
ReenableFires(n) ==
    /\ reenable[n] > 0
    /\ reenable' = [reenable EXCEPT ![n] = @ - 1]
    /\ isAvailable' = [isAvailable EXCEPT ![n] = TRUE]
    /\ UNCHANGED <<keys, providerStats, calls, lastResult, callCount, bvars>>

\* resetProviderAvailability, lines 348-352; the re-enable timers stay pending
ResetProviderAvailability ==
    /\ isAvailable' = [n \in ProviderNames |-> TRUE]
    /\ UNCHANGED <<keys, providerStats, reenable, calls, lastResult, callCount, bvars>>

\* refreshProviders, lines 361-364: this.providers holds new provider objects,
\* all available; the stats are kept. The attempts under way and the pending
\* re-enable timers hold the old objects, so these timers no longer act on
\* this.providers.
RefreshProviders ==
    /\ isAvailable' = [n \in ProviderNames |-> TRUE]
    /\ reenable' = [n \in ProviderNames |-> 0]
    /\ calls' = {[call EXCEPT !.stale = TRUE] : call \in calls}
    /\ UNCHANGED <<keys, providerStats, lastResult, callCount, bvars>>

\* the AIProviderManager constructor, lines 131-141
InitProviders(keySets) ==
    /\ keys \in keySets
    /\ isAvailable = [n \in ProviderNames |-> TRUE]
    /\ providerStats = [n \in ProviderNames |-> [successes |-> 0, failures |-> 0]]
    /\ reenable = [n \in ProviderNames |-> 0]
    /\ calls = {}
    /\ lastResult = NoResult
    /\ callCount = 0

-----------------------------------------------------------------------------
(* The cache of fixes (cache.ts) and the rate limiter (RateLimiter) *)

Null == "null"

\* defaultCacheConfig.defaultTtlDays, cache.ts line 21
DefaultTtlDays == 7

\* getCachedFix, cache.ts line 56: defaultTtlDays * 24 * 60 * 60 * 1000
TtlMs == DefaultTtlDays * 24 * 60 * 60 * 1000

\* a row of ai_fixes
FixRow(issueHash, text, createdAt) ==
    [issueHash |-> issueHash, text |-> text, createdAt |-> createdAt]

\* cacheFix, cache.ts lines 45-51, without its ON CONFLICT clause
InsertedBesides(rows, issueHash, text, at) ==
    rows \cup {FixRow(issueHash, text, at)}

\* cacheFix, cache.ts lines 45-51: INSERT ... ON CONFLICT (issue_hash) DO UPDATE
\* of the text and of created_at; issue_hash is UNIQUE (migration, line 3)
Upserted(rows, issueHash, text, at) ==
    {r \in rows : r.issueHash # issueHash} \cup {FixRow(issueHash, text, at)}

\* getCachedFix, cache.ts lines 61-62, with created_at >= cutoffDate
LiveRowsFromCutoff(rows, issueHash, cutoffDate) ==
    {r \in rows : r.issueHash = issueHash /\ r.createdAt >= cutoffDate}

\* getCachedFix, cache.ts lines 58-63: the rows the SELECT matches
LiveRows(rows, issueHash, cutoffDate) ==
    {r \in rows : r.issueHash = issueHash /\ r.createdAt > cutoffDate}

\* getCachedFix, cache.ts lines 55-66, called at time `at`:
\* result?.fixed_code_snippet || null
GetCachedFix(issueHash, at) ==
    LET result == LiveRows(cache, issueHash, at - TtlMs)
    IN  IF result = {} THEN Null
        ELSE LET row == CHOOSE r \in result : TRUE
             IN  IF row.text = "" THEN Null ELSE row.text

\* openAIRateLimiter, line 67 of the rate limiter: 50 requests per window
MaxRequests == 50

\* openAIRateLimiter, line 68: windowMs of one hour
WindowMs == 60 * 60 * 1000

\* checkLimit, lines 25-29: DELETE ... WHERE created_at < windowStart
DeleteExpired(rows, windowStart) ==
    LET Kept(createdAt) == ~(createdAt < windowStart)
    IN  SelectSeq(rows, Kept)

\* checkLimit, lines 32-39: SELECT COUNT(*) ... WHERE created_at >= windowStart
CountRequests(rows, windowStart) ==
    LET InWindow(createdAt) == createdAt >= windowStart
    IN  Len(SelectSeq(rows, InWindow))

\* checkLimit, line 43, with a limit that one more request may pass
DeniedAboveLimit(currentCount) == currentCount > MaxRequests

\* checkLimit, line 43: currentCount >= this.config.maxRequests
Denied(currentCount) == currentCount >= MaxRequests

\* checkLimit, line 40: Math.max(0, maxRequests - currentCount)
Remaining(currentCount) == Max(0, MaxRequests - currentCount)

\* checkLimit, lines 52-55: INSERT of a row created at the `now` of the call
RecordRequest(rows, at) == Append(rows, at)

\* an AccessibilityIssue whose type, element and description are the
\* sequences of the UTF-16 code units of their text (String.prototype.charCodeAt)
HashedIssue(type, element, description, severity, codeSnippet) ==
    [type |-> type, element |-> element, description |-> description,
     severity |-> severity, codeSnippet |-> codeSnippet]

\* charCodeAt of "|", "h", "l" (the first letters of the severities here)
Bar == <<124>>

\* generateIssueHash, cache.ts line 32, with the severity in the content
ContentWithSeverity(issue) ==
    issue.type \o Bar \o issue.element \o Bar \o issue.description
        \o (IF issue.severity = "high" THEN <<104>> ELSE <<108>>)

\* generateIssueHash, cache.ts line 32: `${type}|${element}|${description}`
Content(issue) == issue.type \o Bar \o issue.element \o Bar \o issue.description

\* A 32-bit integer as its two's-complement bit pattern <<high 16 bits, low 16
\* bits>>. Word: 2^16.
Word == 65536

\* hash << 5 on a 32-bit integer
ShiftLeft5(h) ==
    LET low == 32 * h[2]
    IN  <<(32 * h[1] + low \div Word) % Word, low % Word>>

\* ToInt32(a - b) of two 32-bit integers
Minus32(a, b) ==
    LET low == a[2] - b[2]
        borrow == IF low < 0 THEN 1 ELSE 0
    IN  <<(a[1] - b[1] - borrow + 2 * Word) % Word, (low + Word) % Word>>

\* ToInt32(a + char) of a 32-bit integer and a code unit
Plus32(a, char) ==
    LET low == a[2] + char
    IN  <<(a[1] + low \div Word) % Word, low % Word>>

\* generateIssueHash, cache.ts lines 33-38: the loop from index i (0-based in
\* the code, 1-based here) with the hash so far: hash = ((hash << 5) - hash) +
\* char; hash = hash & hash. The sum is exact in a double and `&` wraps it to
\* 32 bits. Int32(hash): hash is such a 32-bit pattern, evaluated before
\* the next turn of the loop.
Int32(h) == h[1] \in 0..(Word - 1) /\ h[2] \in 0..(Word - 1)

RECURSIVE HashFrom(_, _, _)
HashFrom(content, i, hash) ==
    IF Int32(hash) /\ i <= Len(content)
    THEN HashFrom(content, i + 1,
                  Plus32(Minus32(ShiftLeft5(hash), hash), content[i]))
    ELSE hash

HashOf(content) == HashFrom(content, 1, <<0, 0>>)

\* Math.abs of a 32-bit integer: its magnitude, up to 2^31, as an unsigned
\* 32-bit pattern
Abs32(h) == IF h[1] >= Word \div 2 THEN Minus32(<<0, 0>>, h) ELSE h

\* the digits of Number.prototype.toString(36)
Digits36 ==
    << "0", "1", "2", "3", "4", "5", "6", "7", "8", "9", "a", "b", "c", "d", "e",
       "f", "g", "h", "i", "j", "k", "l", "m", "n", "o", "p", "q", "r", "s", "t",
       "u", "v", "w", "x", "y", "z" >>

\* toString(36) of a positive magnitude: the digits of m, the highest first
RECURSIVE DigitsOf(_)
DigitsOf(m) ==
    IF m = <<0, 0>> THEN ""
    ELSE LET rest == (m[1] % 36) * Word + m[2]
         IN  DigitsOf(<<m[1] \div 36, rest \div 36>>) \o Digits36[(rest % 36) + 1]

ToString36(m) == IF m = <<0, 0>> THEN "0" ELSE DigitsOf(m)

\* generateIssueHash, cache.ts lines 27-41
GenerateIssueHash(issue) == ToString36(Abs32(HashOf(Content(issue))))

\* a call of a direct caller of the cache or of the rate limiter
Call(op, issueHash, text) == [op |-> op, issueHash |-> issueHash, text |-> text]

\* the direct caller before its first call and between two calls: k calls made
NoCall == [k |-> 0, op |-> "none", at |-> 0, count |-> 0]

\* what the last call of the direct caller returned, with the arguments and
\* the time of that call
NoReply == [op |-> "none", issueHash |-> "", at |-> 0, text |-> Null,
            allowed |-> FALSE, remaining |-> 0, resetTime |-> 0]

\* the next call of the direct caller, which makes its calls one after another
NextCall ==
    IF direct.op = "none" /\ direct.k < Len(script)
    THEN script[direct.k + 1]
    ELSE Call("none", "", "")

\* the call the direct caller awaits
ThisCall == script[direct.k]

\* time passes
Tick(d, span) ==
    /\ (now \div (span - 1)) + (now % (span - 1)) < MaxTicks
    /\ now' = now + d
    /\ UNCHANGED <<issues, cache, run, pc, fixOf, promiseOf, recorded, askedAt,
                   script, work, direct, reply, bvars, pvars>>

\* cacheFix, cache.ts lines 44-46, up to its await: new Date() is taken
CacheFixCalled ==
    /\ NextCall.op = "cacheFix"
    /\ direct' = [NoCall EXCEPT !.k = direct.k + 1, !.op = "cacheFix", !.at = now]
    /\ UNCHANGED <<issues, cache, run, pc, fixOf, promiseOf, recorded, now,
                   askedAt, script, work, reply, bvars, pvars>>

\* cacheFix, cache.ts lines 45-52: the statement has run
CacheFixDone ==
    /\ direct.op = "cacheFix"
    /\ cache' = Upserted(cache, ThisCall.issueHash, ThisCall.text, direct.at)
    /\ direct' = [direct EXCEPT !.op = "none"]
    /\ reply' = [NoReply EXCEPT !.op = "cacheFix",
                                !.issueHash = ThisCall.issueHash,
                                !.at = direct.at]
    /\ UNCHANGED <<issues, run, pc, fixOf, promiseOf, recorded, now, askedAt,
                   script, work, bvars, pvars>>

\* getCachedFix, cache.ts lines 55-58, up to its await: the cutoff date is taken
GetCachedFixCalled ==
    /\ NextCall.op = "getCachedFix"
    /\ direct' = [NoCall EXCEPT !.k = direct.k + 1, !.op = "getCachedFix",
                                !.at = now]
    /\ UNCHANGED <<issues, cache, run, pc, fixOf, promiseOf, recorded, now,
                   askedAt, script, work, reply, bvars, pvars>>

\* getCachedFix, cache.ts lines 58-66: the query has run
GetCachedFixDone ==
    /\ direct.op = "getCachedFix"
    /\ direct' = [direct EXCEPT !.op = "none"]
    /\ reply' = [NoReply EXCEPT !.op = "getCachedFix",
                                !.issueHash = ThisCall.issueHash,
                                !.at = direct.at,
                                !.text = GetCachedFix(ThisCall.issueHash, direct.at)]
    /\ UNCHANGED <<issues, cache, run, pc, fixOf, promiseOf, recorded, now,
                   askedAt, script, work, bvars, pvars>>

\* checkLimit, lines 20-25, up to its first await: now is taken, the DELETE is sent
CheckLimitCalled ==
    /\ NextCall.op = "checkLimit"
    /\ direct' = [NoCall EXCEPT !.k = direct.k + 1, !.op = "delete", !.at = now]
    /\ UNCHANGED <<issues, cache, run, pc, fixOf, promiseOf, recorded, now,
                   askedAt, script, work, reply, bvars, pvars>>

\* checkLimit, lines 25-32: the DELETE has run, the COUNT is sent
CheckLimitDeleted ==
    /\ direct.op = "delete"
    /\ recorded' = DeleteExpired(recorded, direct.at - WindowMs)
    /\ direct' = [direct EXCEPT !.op = "count"]
    /\ UNCHANGED <<issues, cache, run, pc, fixOf, promiseOf, now, askedAt,
                   script, work, reply, bvars, pvars>>

\* checkLimit, lines 32-52: the COUNT has run; at the limit the call is denied,
\* below it the INSERT is sent
CheckLimitCounted ==
    /\ direct.op = "count"
    /\ LET currentCount == CountRequests(recorded, direct.at - WindowMs)
       IN  IF Denied(currentCount)
           THEN /\ direct' = [direct EXCEPT !.op = "none"]
                /\ reply' = [NoReply EXCEPT !.op = "checkLimit",
                                            !.at = direct.at,
                                            !.allowed = FALSE,
                                            !.remaining = 0,
                                            !.resetTime = direct.at + WindowMs]
           ELSE /\ direct' = [direct EXCEPT !.op = "insert", !.count = currentCount]
                /\ UNCHANGED reply
    /\ UNCHANGED <<issues, cache, run, pc, fixOf, promiseOf, recorded, now,
                   askedAt, script, work, bvars, pvars>>

\* checkLimit, lines 52-61: the INSERT has run, the call is allowed
CheckLimitRecorded ==
    /\ direct.op = "insert"
    /\ recorded' = RecordRequest(recorded, direct.at)
    /\ direct' = [direct EXCEPT !.op = "none"]
    /\ reply' = [NoReply EXCEPT !.op = "checkLimit",
                                !.at = direct.at,
                                !.allowed = TRUE,
                                !.remaining = Remaining(direct.count) - 1,
                                !.resetTime = direct.at + WindowMs]
    /\ UNCHANGED <<issues, cache, run, pc, fixOf, promiseOf, now, askedAt,
                   script, work, bvars, pvars>>

\* the direct caller before its calls
InitDirect(scripts) ==
    /\ script \in scripts
    /\ direct = NoCall
    /\ reply = NoReply

-----------------------------------------------------------------------------
(* enhanceIssuesWithAI and getAIFixForIssue *)

\* ai-service.ts, line 23 (without its leading emoji)
DEMO_FIX == "Demo Suggestion: Add descriptive alt text or labels."

\* texts whose trim() is the empty string
BlankTexts == {"", " "}

\* getPriorityFromSeverity, lines 118-129
GetPriorityFromSeverity(severity) ==
    CASE severity = "high" -> 10
      [] severity = "medium" -> 5
      [] severity = "low" -> 1
      [] OTHER -> 0

\* an AccessibilityIssue with its fingerprint generateIssueHash(issue)
Issue(issueHash, severity, codeSnippet) ==
    [issueHash |-> issueHash, severity |-> severity, codeSnippet |-> codeSnippet]

IssueHashes == {"hashA", "hashB"}

\* the issue lists of an enhanceIssuesWithAI call: none, two issues of different
\* fingerprint and severity, twice the same issue
IssueLists ==
    { <<>>,
      <<Issue("hashA", "low", "snippet A")>>,
      <<Issue("hashA", "low", "snippet A"), Issue("hashB", "high", "snippet B")>>,
      <<Issue("hashA", "high", "snippet A"), Issue("hashA", "high", "snippet A")>> }

\* the cache before the call: empty, or holding a fix for hashA
EmptyCache == {}

CacheStates == {EmptyCache, {FixRow("hashA", "cached fix A", 0)}}

\* isDemoMode, lines 26-38: no key is configured
IsDemoMode == keys = {}

\* hasAvailableProviders, ai-providers.ts lines 355-358
HasAvailableProviders ==
    \/ AvailableProviders(isAvailable, "individual") # {}
    \/ AvailableProviders(isAvailable, "batch") # {}

\* enhanceIssuesWithAI, lines 414-417: the issues once getAIFixForIssue of
\* issue i has returned aiFixedCode
FixAppliedAlways(i, aiFixedCode) ==
    [issues EXCEPT ![i].codeSnippet = aiFixedCode]

FixApplied(i, aiFixedCode) ==
    IF aiFixedCode # Null /\ aiFixedCode \notin BlankTexts
    THEN [issues EXCEPT ![i].codeSnippet = aiFixedCode]
    ELSE issues

\* enhanceIssuesWithAI, lines 418-421: getAIFixForIssue of issue i has
\* rejected; the catch keeps the code snippet
FixFailedClearsSnippet(i) == [issues EXCEPT ![i].codeSnippet = ""]

FixFailed(i) == issues

\* enhanceIssuesWithAI, lines 380-394, with the issues left as they are
DemoFixSkipped(issue) == issue

\* enhanceIssuesWithAI, lines 382-384 and 390-392: issue.codeSnippet = DEMO_FIX
DemoFixed(issue) == [issue EXCEPT !.codeSnippet = DEMO_FIX]

\* the ends of a getAIFixForIssue call: a fix returned, null returned (lines 89
\* and 114), a rejection (caught at line 418)
Settled == {"returned", "returnedNull", "rejected"}

\* enhanceIssuesWithAI, lines 374-412, up to the first await of every
\* getAIFixForIssue call (the cache query of line 63); the sort of line 407
\* orders the starts of these calls, which all happen within this step
EnhanceIssuesWithAI ==
    /\ run = "idle"
    /\ IF Len(issues) = 0
       THEN /\ run' = "returned"
            /\ UNCHANGED <<issues, pc, askedAt>>
       ELSE IF IsDemoMode \/ ~HasAvailableProviders
       THEN /\ issues' = [i \in DOMAIN issues |-> DemoFixed(issues[i])]
            /\ run' = "returned"
            /\ UNCHANGED <<pc, askedAt>>
       ELSE /\ run' = "waiting"
            /\ pc' = [i \in DOMAIN issues |-> "getCachedFix"]
            /\ askedAt' = [i \in DOMAIN issues |-> now]
            /\ UNCHANGED issues
    /\ UNCHANGED <<cache, fixOf, promiseOf, recorded, now, script, work, direct, reply,
                   bvars, pvars>>

\* getAIFixForIssue, lines 63-86: the cache query of issue i returns; on a hit
\* the fix is returned, on a miss the call goes on to the demo fix (cacheFix
\* takes new Date()) or to checkLimit (which takes now and sends its DELETE)
GetCachedFixReturns(i) ==
    /\ pc[i] = "getCachedFix"
    /\ LET cachedFix == GetCachedFix(issues[i].issueHash, askedAt[i])
       IN  IF cachedFix # Null
           THEN /\ issues' = FixApplied(i, cachedFix)
                /\ pc' = [pc EXCEPT ![i] = "returned"]
                /\ UNCHANGED askedAt
           ELSE /\ pc' = [pc EXCEPT ![i] =
                            IF IsDemoMode \/ ~HasAvailableProviders
                            THEN "cacheDemoFix" ELSE "checkLimit"]
                /\ askedAt' = [askedAt EXCEPT ![i] = now]
                /\ UNCHANGED issues
    /\ UNCHANGED <<cache, run, fixOf, promiseOf, recorded, now, script, work, direct, reply,
                   bvars, pvars>>

\* a query of issue i on the cache or the rate-limiter database fails outside
\* the try of lines 94-115: getAIFixForIssue rejects
QueryThrows(i) ==
    /\ pc[i] \in {"getCachedFix", "cacheDemoFix", "checkLimit", "countRequests",
                  "recordRequest"}
    /\ issues' = FixFailed(i)
    /\ pc' = [pc EXCEPT ![i] = "rejected"]
    /\ UNCHANGED <<cache, run, fixOf, promiseOf, recorded, now, askedAt, script, work, direct,
                   reply, bvars, pvars>>

\* getAIFixForIssue, lines 70-83: cacheFix of the demo fix returns
CacheDemoFixReturns(i) ==
    /\ pc[i] = "cacheDemoFix"
    /\ cache' = Upserted(cache, issues[i].issueHash, DEMO_FIX, askedAt[i])
    /\ issues' = FixApplied(i, DEMO_FIX)
    /\ pc' = [pc EXCEPT ![i] = "returned"]
    /\ UNCHANGED <<run, fixOf, promiseOf, recorded, now, askedAt, script, work, direct, reply,
                   bvars, pvars>>

\* checkLimit, lines 25-32 of the rate limiter: the DELETE of the requests
\* older than the window has run, the COUNT is sent
CheckLimitDeletes(i) ==
    /\ pc[i] = "checkLimit"
    /\ recorded' = DeleteExpired(recorded, askedAt[i] - WindowMs)
    /\ pc' = [pc EXCEPT ![i] = "countRequests"]
    /\ UNCHANGED <<issues, cache, run, fixOf, promiseOf, now, askedAt, script, work, direct,
                   reply, bvars, pvars>>

\* checkLimit, lines 32-49 of the rate limiter: the count of the requests in
\* the window returns; at the limit the call is denied and getAIFixForIssue
\* returns null (lines 87-90), below it the request is recorded
CheckLimitCounts(i) ==
    /\ pc[i] = "countRequests"
    /\ LET currentCount == CountRequests(recorded, askedAt[i] - WindowMs)
       IN  IF Denied(currentCount)
           THEN /\ issues' = FixApplied(i, Null)
                /\ pc' = [pc EXCEPT ![i] = "returnedNull"]
           ELSE /\ pc' = [pc EXCEPT ![i] = "recordRequest"]
                /\ UNCHANGED issues
    /\ UNCHANGED <<cache, run, fixOf, promiseOf, recorded, now, askedAt, script, work, direct,
                   reply, bvars, pvars>>

\* checkLimit, lines 52-61, and getAIFixForIssue, lines 92-106: the request is
\* recorded and the issue is added to the scheduler with its priority
CheckLimitAllows(i) ==
    /\ pc[i] = "recordRequest"
    /\ recorded' = RecordRequest(recorded, askedAt[i])
    /\ Add(GetPriorityFromSeverity(issues[i].severity))
    /\ promiseOf' = [promiseOf EXCEPT ![i] = Len(promise) + 1]
    /\ pc' = [pc EXCEPT ![i] = "add"]
    /\ UNCHANGED <<issues, cache, run, fixOf, now, askedAt, script, work, direct, reply>>

\* getAIFixForIssue, lines 100-115: the promise of add is settled; a result is
\* handed to cacheFix (which takes new Date()), a rejection is caught and null
\* is returned
AddSettles(i) ==
    /\ pc[i] = "add"
    /\ promise[promiseOf[i]].state # "pending"
    /\ IF promise[promiseOf[i]].state = "resolved"
       THEN /\ fixOf' = [fixOf EXCEPT ![i] = promise[promiseOf[i]].value]
            /\ pc' = [pc EXCEPT ![i] = "cacheFix"]
            /\ askedAt' = [askedAt EXCEPT ![i] = now]
            /\ UNCHANGED issues
       ELSE /\ issues' = FixApplied(i, Null)
            /\ pc' = [pc EXCEPT ![i] = "returnedNull"]
            /\ UNCHANGED <<fixOf, askedAt>>
    /\ UNCHANGED <<cache, run, promiseOf, recorded, now, script, work, direct, reply, bvars,
                   pvars>>

\* getAIFixForIssue, lines 109-111: cacheFix of the result returns
CacheFixReturns(i) ==
    /\ pc[i] = "cacheFix"
    /\ cache' = Upserted(cache, issues[i].issueHash, fixOf[i], askedAt[i])
    /\ issues' = FixApplied(i, fixOf[i])
    /\ pc' = [pc EXCEPT ![i] = "returned"]
    /\ UNCHANGED <<run, fixOf, promiseOf, recorded, now, askedAt, script, work, direct, reply,
                   bvars, pvars>>

\* getAIFixForIssue, lines 109 and 112-115: cacheFix of the result fails inside
\* the try; null is returned
CacheFixThrows(i) ==
    /\ pc[i] = "cacheFix"
    /\ issues' = FixApplied(i, Null)
    /\ pc' = [pc EXCEPT ![i] = "returnedNull"]
    /\ UNCHANGED <<cache, run, fixOf, promiseOf, recorded, now, askedAt, script, work, direct,
                   reply, bvars, pvars>>

\* enhanceIssuesWithAI, lines 425-432: Promise.allSettled has resolved
EnhanceReturns ==
    /\ run = "waiting"
    /\ \A i \in DOMAIN issues : pc[i] \in Settled
    /\ run' = "returned"
    /\ UNCHANGED <<issues, cache, pc, fixOf, promiseOf, recorded, now, askedAt,
                   script, work, direct, reply, bvars, pvars>>

\* the state before an enhanceIssuesWithAI call, at time 0: the rate limiter
\* holds as many requests of this instant as counts allows
InitService(issueLists, cacheStates, counts) ==
    /\ issues \in issueLists
    /\ cache \in cacheStates
    /\ \E n \in counts : recorded = [k \in 1..n |-> 0]
    /\ now = 0
    /\ askedAt = [i \in DOMAIN issues |-> 0]
    /\ work = {}
    /\ run = "idle"
    /\ pc = [i \in DOMAIN issues |-> "idle"]
    /\ fixOf = [i \in DOMAIN issues |-> Null]
    /\ promiseOf = [i \in DOMAIN issues |-> 0]

\* no enhanceIssuesWithAI call
NoService == InitService({<<>>}, {EmptyCache}, {0}) /\ InitDirect({<<>>})

-----------------------------------------------------------------------------
(* processBatchAIRequests, the processor of aiBatchProcessor *)

\* an AccessibilityIssue with its type and its fingerprint
TypedIssue(type, issueHash, severity, codeSnippet) ==
    [type |-> type, issueHash |-> issueHash, severity |-> severity,
     codeSnippet |-> codeSnippet]

\* String.prototype.includes on the issue types of the analyzer
Includes(type, word) ==
    <<type, word>> \in { <<"missing-alt-text", "alt">>,
                         <<"missing-form-label", "label">>,
                         <<"missing-form-label", "form">>,
                         <<"heading-hierarchy", "hierarchy">> }

\* getComplexityFromIssue, lines 131-144
GetComplexityFromIssue(issue) ==
    IF Includes(issue.type, "alt") \/ Includes(issue.type, "label")
    THEN "simple"
    ELSE IF \/ Includes(issue.type, "hierarchy")
            \/ Includes(issue.type, "form")
            \/ Includes(issue.type, "structure")
    THEN "complex"
    ELSE "medium"

\* processBatchAIRequests, lines 184-189: the highest complexity of the requests
RECURSIVE MaxComplexity(_)
MaxComplexity(requests) ==
    IF requests = <<>> THEN "simple"
    ELSE LET max == MaxComplexity(SubSeq(requests, 1, Len(requests) - 1))
             complexity == GetComplexityFromIssue(Last(requests))
         IN  IF complexity = "complex" THEN "complex"
             ELSE IF complexity = "medium" /\ max # "complex" THEN "medium"
             ELSE max

\* the text of a fix, and the same text within white space
FixText(k) == "fix " \o ToString(k)

Padded(text) == " " \o text \o " "

\* String.prototype.trim on the texts of the model
Trim(text) ==
    IF text \in BlankTexts THEN ""
    ELSE IF \E k \in 1..4 : text = Padded(FixText(k))
    THEN CHOOSE t \in {FixText(k) : k \in 1..4} : text = Padded(t)
    ELSE text

\* the text of a provider: a preamble, then for every marker ISSUE_<n>: of the
\* text the number n and the text that follows the marker
Response(preamble, parts) == [preamble |-> preamble, parts |-> parts]

Part(n, text) == [n |-> n, text |-> text]

\* response.split(/ISSUE_\d+:/), line 260
Split(response) ==
    <<response.preamble>> \o [k \in 1..Len(response.parts) |-> response.parts[k].text]

\* the requests of a batch: the issue whose add call returned the promise of
\* the item
RequestsOf(batch) ==
    [k \in 1..Len(batch) |->
        issues[CHOOSE i \in DOMAIN issues : promiseOf[i] = batch[k].id]]

\* parseBatchResponse, lines 262-280 and 283-290, with an empty section kept
SectionKept(section, issue) == Trim(section)

\* parseBatchResponse, lines 263-279: the fix of a section
FixOfSection(section, issue) ==
    LET fixedCode == Trim(section)
    IN  IF fixedCode # "" THEN fixedCode ELSE issue.codeSnippet

\* parseBatchResponse, lines 262-280, without the loop of lines 283-290 for
\* the requests the response has no section for
ParsedSections(response, requests) ==
    LET sections == Tail(Split(response))
    IN  [i \in 1..Min(Len(sections), Len(requests)) |->
            FixOfSection(sections[i], requests[i])]

\* parseBatchResponse, lines 249-304: the fixedCode of the results
ParseBatchResponse(response, requests) ==
    LET sections == Tail(Split(response))
        first == [i \in 1..Min(Len(sections), Len(requests)) |->
                     FixOfSection(sections[i], requests[i])]
        rest == [j \in 1..Max(0, Len(requests) - Len(sections)) |->
                     requests[Len(sections) + j].codeSnippet]
    IN  first \o rest

\* the answers of a provider to a batch prompt of n issues: every section in
\* white space, the last section missing, the second marker missing, the first
\* section blank, one section more, no marker at all
Responses(n) ==
    { Response("", [k \in 1..n |-> Part(k, Padded(FixText(k)))]),
      Response("", [k \in 1..(n - 1) |-> Part(k, FixText(k))]),
      Response("Here are the fixes: ",
               [k \in 1..(n - 1) |-> Part(IF k = 1 THEN 1 ELSE k + 1,
                                          FixText(IF k = 1 THEN 1 ELSE k + 1))]),
      Response("", [k \in 1..n |-> Part(k, IF k = 1 THEN " " ELSE FixText(k))]),
      Response("", [k \in 1..(n + 1) |-> Part(k, FixText(k))]),
      Response("I cannot help with that.", <<>>) }

\* the answers of a provider to the prompt of one issue
IndividualTexts == {Padded(FixText(4)), " "}

\* processBatchAIRequests, lines 154-159 and 164-169, fallbackIndividualRequests,
\* lines 312-317: the demo fix for every request
DemoFixes(requests) == [k \in 1..Len(requests) |-> DEMO_FIX]

\* Array.prototype.sort of line 323: the requests by descending priority of
\* their severity, requests of one priority in their order
RECURSIVE SortRequests(_)
SortRequests(requests) ==
    IF requests = <<>> THEN <<>>
    ELSE LET sorted == SortRequests(SubSeq(requests, 1, Len(requests) - 1))
             request == Last(requests)
             before == {k \in 1..Len(sorted) :
                           GetPriorityFromSeverity(sorted[k].severity)
                               >= GetPriorityFromSeverity(request.severity)}
         IN  SubSeq(sorted, 1, Cardinality(before)) \o <<request>>
                 \o SubSeq(sorted, Cardinality(before) + 1, Len(sorted))

\* createBatchPrompt, lines 216-217: severityOrder
SeverityOrder(severity) ==
    CASE severity = "high" -> 3
      [] severity = "medium" -> 2
      [] severity = "low" -> 1

\* createBatchPrompt, lines 215-218: [...issues].sort by descending
\* severityOrder, issues of one severity in their order; the issue at index k
\* of the result is numbered ISSUE_k in the prompt (lines 233-240)
RECURSIVE SortedIssues(_)
SortedIssues(issueList) ==
    IF issueList = <<>> THEN <<>>
    ELSE LET sorted == SortedIssues(SubSeq(issueList, 1, Len(issueList) - 1))
             issue == Last(issueList)
             before == {k \in 1..Len(sorted) :
                           SeverityOrder(sorted[k].severity)
                               >= SeverityOrder(issue.severity)}
         IN  SubSeq(sorted, 1, Cardinality(before)) \o <<issue>>
                 \o SubSeq(sorted, Cardinality(before) + 1, Len(sorted))

\* a processBatchAIRequests call on the batch of flush fid: where it stands
\* (stage), the executeWithFallback call it awaits, the request of
\* fallbackIndividualRequests it has come to, the text of the batch call once
\* it is parsed, the fixedCode of its results
Work(fid, stage, call, k, results) ==
    [fid |-> fid, stage |-> stage, call |-> call, k |-> k,
     response |-> Response("", <<>>), results |-> results]

\* processBatchAIRequests, lines 199-204: the text of the batch call is parsed
Parsed(fid, response, requests) ==
    [Work(fid, "parsed", 0, 0, ParseBatchResponse(response, requests))
        EXCEPT !.response = response]

\* the flush whose processor call w is
FlushOf(w) == CHOOSE f \in inflight : f.fid = w.fid

\* the executeWithFallback call w awaits
CallOf(w) == CHOOSE call \in calls : call.id = w.call

\* fallbackIndividualRequests, lines 327-370: request w.k has given fixedCode;
\* the loop goes on to the next request or the results are returned
NextRequest(w, fixedCode) ==
    LET results == Append(w.results, fixedCode)
    IN  IF w.k = Len(FlushOf(w).batch)
        THEN Work(w.fid, "done", 0, 0, results)
        ELSE Work(w.fid, "fallback", 0, w.k + 1, results)

\* processBatchAIRequests, lines 146-197, up to its first await: without a
\* provider the demo fixes are returned, otherwise the batch call is made,
\* which throws at once when no batch provider is available
ProcessBatchAIRequests(f) ==
    /\ f \in inflight
    /\ \A w \in work : w.fid # f.fid
    /\ LET requests == RequestsOf(f.batch)
       IN  IF IsDemoMode \/ ~HasAvailableProviders
           THEN /\ work' = work \cup {Work(f.fid, "done", 0, 0, DemoFixes(requests))}
                /\ UNCHANGED <<bvars, pvars>>
           ELSE /\ StartCall("batch", 1, MaxComplexity(requests))
                /\ work' = work \cup
                      {IF \E call \in calls' : call.id = callCount + 1
                       THEN Work(f.fid, "batch", callCount + 1, 0, <<>>)
                       ELSE Work(f.fid, "fallback", 0, 1, <<>>)}
    /\ UNCHANGED <<issues, cache, run, pc, fixOf, promiseOf, recorded, now,
                   askedAt, script, direct, reply>>

\* processBatchAIRequests, lines 192-204: the batch call returns the text of a
\* provider, which is parsed
BatchCallReturns(w, response) ==
    /\ w \in work
    /\ w.stage = "batch"
    /\ AttemptSucceeds(CallOf(w))
    /\ work' = (work \ {w}) \cup
          {Parsed(w.fid, response, RequestsOf(FlushOf(w).batch))}
    /\ UNCHANGED <<issues, cache, run, pc, fixOf, promiseOf, recorded, now,
                   askedAt, script, direct, reply>>

\* processBatchAIRequests, lines 205-209, and fallbackIndividualRequests, lines
\* 306-325: an attempt of the batch call fails; when the call throws, the
\* requests are made one by one, or answered with the demo fix when no
\* provider is left
BatchCallFails(w) ==
    /\ w \in work
    /\ w.stage = "batch"
    /\ AttemptFails(CallOf(w))
    /\ work' = IF \E call \in calls' : call.id = w.call
               THEN work
               ELSE (work \ {w}) \cup
                    {IF \/ IsDemoMode
                        \/ /\ AvailableProviders(isAvailable', "individual") = {}
                           /\ AvailableProviders(isAvailable', "batch") = {}
                     THEN Work(w.fid, "done", 0, 0,
                               DemoFixes(RequestsOf(FlushOf(w).batch)))
                     ELSE Work(w.fid, "fallback", 0, 1, <<>>)}
    /\ UNCHANGED <<issues, cache, run, pc, fixOf, promiseOf, recorded, now,
                   askedAt, script, direct, reply>>

\* fallbackIndividualRequests, lines 327-351 and 359-367: after the delay of
\* line 331 (none before the first request) the call for request w.k is made;
\* when it throws at once the code snippet of the issue is the fix
IndividualCallStarts(w) ==
    /\ w \in work
    /\ w.stage = "fallback"
    /\ LET request == SortRequests(RequestsOf(FlushOf(w).batch))[w.k]
       IN  /\ StartCall("individual", 1, GetComplexityFromIssue(request))
           /\ work' = (work \ {w}) \cup
                 {IF \E call \in calls' : call.id = callCount + 1
                  THEN Work(w.fid, "individual", callCount + 1, w.k, w.results)
                  ELSE NextRequest(w, request.codeSnippet)}
    /\ UNCHANGED <<issues, cache, run, pc, fixOf, promiseOf, recorded, now,
                   askedAt, script, direct, reply>>

\* fallbackIndividualRequests, lines 346-358: the call for request w.k returns
\* the text of a provider
IndividualCallReturns(w, text) ==
    /\ w \in work
    /\ w.stage = "individual"
    /\ AttemptSucceeds(CallOf(w))
    /\ LET request == SortRequests(RequestsOf(FlushOf(w).batch))[w.k]
       IN  work' = (work \ {w}) \cup {NextRequest(w, FixOfSection(text, request))}
    /\ UNCHANGED <<issues, cache, run, pc, fixOf, promiseOf, recorded, now,
                   askedAt, script, direct, reply>>

\* fallbackIndividualRequests, lines 359-367: an attempt of the call for
\* request w.k fails; when the call throws, the code snippet of the issue is
\* the fix
IndividualCallFails(w) ==
    /\ w \in work
    /\ w.stage = "individual"
    /\ AttemptFails(CallOf(w))
    /\ LET request == SortRequests(RequestsOf(FlushOf(w).batch))[w.k]
       IN  work' = IF \E call \in calls' : call.id = w.call
                   THEN work
                   ELSE (work \ {w}) \cup {NextRequest(w, request.codeSnippet)}
    /\ UNCHANGED <<issues, cache, run, pc, fixOf, promiseOf, recorded, now,
                   askedAt, script, direct, reply>>

\* processBatch, lines 187-223: processBatchAIRequests has returned its results
ProcessorDone(w, responseTime) ==
    /\ w \in work
    /\ w.stage \in {"parsed", "done"}
    /\ ProcessorReturns(FlushOf(w), w.results, responseTime)
    /\ work' = work \ {w}
    /\ UNCHANGED <<issues, cache, run, pc, fixOf, promiseOf, recorded, now,
                   askedAt, script, direct, reply>>

-----------------------------------------------------------------------------
(* The scheduler under every interleaving of add calls, timer firings and    *)
(* batch completions; processors answer fast, with full, short or holed      *)
(* result lists, or throw.                                                   *)

InitQueue == InitBatch(QueueConfigs) /\ InitProviders({AllKeys}) /\ NoService

NextQueue ==
    \/ /\ \E priority \in Priorities : Add(priority)
       /\ UNCHANGED svars
    \/ /\ \E t \in timers : TimerFires(t)
       /\ UNCHANGED svars
    \/ /\ \E f \in inflight, rt \in FastResponses :
             \E results \in ResultLists(Len(f.batch)) : ProcessorReturns(f, results, rt)
       /\ UNCHANGED svars
    \/ /\ \E f \in inflight, rt \in FastResponses : ProcessorThrows(f, rt)
       /\ UNCHANGED svars

SpecQueue == InitQueue /\ [][NextQueue]_vars

-----------------------------------------------------------------------------
(* The scheduler run to completion: the production configuration, two        *)
(* priorities, processors that answer in full or throw, armed timers that    *)
(* eventually fire and processor calls that eventually complete.             *)

InitServe == InitBatch({ProductionConfig}) /\ InitProviders({AllKeys}) /\ NoService

ProcessorCompletes(f) ==
    \E rt \in FastResponses :
        \/ ProcessorReturns(f, FullResults(Len(f.batch)), rt)
        \/ ProcessorThrows(f, rt)

NextServe ==
    \/ /\ \E priority \in {5, 10} : Add(priority)
       /\ UNCHANGED svars
    \/ /\ \E t \in timers : TimerFires(t)
       /\ UNCHANGED svars
    \/ /\ \E f \in inflight : ProcessorCompletes(f)
       /\ UNCHANGED svars

ServeFairness ==
    /\ WF_vars((\E t \in timers : TimerFires(t)) /\ UNCHANGED svars)
    /\ WF_vars((\E f \in inflight : ProcessorCompletes(f)) /\ UNCHANGED svars)

SpecServe == InitServe /\ [][NextServe]_vars /\ ServeFairness

-----------------------------------------------------------------------------
(* The adaptation of batch size and delay: every configuration of            *)
(* AdjustConfigs, every response time, processors that answer in full or     *)
(* throw, items of one priority.                                             *)

InitAdjust == InitBatch(AdjustConfigs) /\ InitProviders({AllKeys}) /\ NoService

NextAdjust ==
    \/ /\ Add(5)
       /\ UNCHANGED svars
    \/ /\ \E t \in timers : TimerFires(t)
       /\ UNCHANGED svars
    \/ /\ \E f \in inflight, rt \in ResponseTimes :
             ProcessorReturns(f, FullResults(Len(f.batch)), rt)
       /\ UNCHANGED svars
    \/ /\ \E f \in inflight, rt \in ResponseTimes : ProcessorThrows(f, rt)
       /\ UNCHANGED svars

SpecAdjust == InitAdjust /\ [][NextAdjust]_vars

-----------------------------------------------------------------------------
(* The adaptation under the production configuration, from the start and    *)
(* late in a run: the first adjustment comes after three batches, and an     *)
(* adjustment for good performance after one for slowness only once the slow *)
(* response times have left the window of ten.                               *)

\* The production scheduler after eleven batches of one item each, flushed by
\* their timers: the first three took 20000 ms, and the adjustment after the
\* third reduced the batch size to floor(0.8 * 3) = 2; the next eight took
\* 5000 ms, and the adjustments after the sixth and the ninth batch changed
\* nothing (averages 12500 and 10000 ms). The promises of the eleven items,
\* all resolved, are left out.
AfterElevenBatches ==
    /\ config = ProductionConfig
    /\ queue = <<>>
    /\ resolvers = <<>>
    /\ currentBatchSize = 2
    /\ currentDelayMs = 2000
    /\ timeoutId = NoTimer
    /\ timers = {}
    /\ timerCount = 11
    /\ inflight = {}
    /\ flushCount = 11
    /\ stats = [totalProcessed |-> 11, totalErrors |-> 0, avgSum |-> 80000,
                avgLen |-> 10, currentBatchSize |-> 2]
    /\ responseTimes = <<20000, 20000, 5000, 5000, 5000, 5000, 5000, 5000, 5000, 5000>>
    /\ batchCount = 11
    /\ promise = <<>>

InitProduction ==
    /\ InitBatch({ProductionConfig}) \/ AfterElevenBatches
    /\ InitProviders({AllKeys})
    /\ NoService

SpecProduction == InitProduction /\ [][NextAdjust]_vars

-----------------------------------------------------------------------------
(* The provider manager under every interleaving of executeWithFallback     *)
(* calls, provider answers and re-enable timers.                             *)

InitManager == InitBatch({ProductionConfig}) /\ InitProviders(KeySets) /\ NoService

NextManager ==
    \/ /\ \E type \in RequestTypes, request \in Requests :
             StartCall(type, request[1], request[2])
       /\ UNCHANGED svars
    \/ /\ \E call \in calls : AttemptSucceeds(call)
       /\ UNCHANGED svars
    \/ /\ \E call \in calls : AttemptFails(call)
       /\ UNCHANGED svars
    \/ /\ \E n \in ProviderNames : ReenableFires(n)
       /\ UNCHANGED svars

SpecManager == InitManager /\ [][NextManager]_vars

-----------------------------------------------------------------------------
(* The circuit breaker: every key configured, calls whose tokens only        *)
(* OpenAI-Mini can hold, under every interleaving of provider answers,       *)
(* re-enable timers, resetProviderAvailability and refreshProviders.         *)

BreakerRequests == {request \in Requests : request[1] * 1000 > 8192}

InitBreaker == InitBatch({ProductionConfig}) /\ InitProviders({AllKeys}) /\ NoService

NextBreaker ==
    \/ /\ \E type \in RequestTypes, request \in BreakerRequests :
             StartCall(type, request[1], request[2])
       /\ UNCHANGED svars
    \/ /\ \E call \in calls : AttemptSucceeds(call)
       /\ UNCHANGED svars
    \/ /\ \E call \in calls : AttemptFails(call)
       /\ UNCHANGED svars
    \/ /\ \E n \in ProviderNames : ReenableFires(n)
       /\ UNCHANGED svars
    \/ /\ ResetProviderAvailability
       /\ UNCHANGED svars
    \/ /\ RefreshProviders
       /\ UNCHANGED svars

SpecBreaker == InitBreaker /\ [][NextBreaker]_vars

\* a timer set with setTimeout fires once its delay has passed
BreakerFairness ==
    \A n \in ProviderNames : WF_vars(ReenableFires(n) /\ UNCHANGED svars)

SpecBreakerFair == SpecBreaker /\ BreakerFairness

-----------------------------------------------------------------------------
(* An enhanceIssuesWithAI call on every list of IssueLists, with no key or   *)
(* the OpenAI key configured, every cache of CacheStates and a rate limiter  *)
(* far from, next to and at its limit; queries may fail, and the processor   *)
(* of the scheduler answers in full, short or with a hole, or throws. The    *)
(* manager is fresh or about to lose its last available provider.            *)

EnrichKeySets == {ks \in KeySets : Cardinality(ks) <= 1}

\* The manager with the OpenAI key after eight executeWithFallback calls: four
\* batch calls have failed on OpenAI, which the circuit breaker has disabled,
\* three individual calls have failed on OpenAI-Mini and the fourth awaits it.
\* One more failure leaves no provider available.
BreakerAboutToOpen ==
    /\ keys = {"OpenAIKey"}
    /\ isAvailable = [n \in ProviderNames |-> n # "OpenAI"]
    /\ providerStats =
           [n \in ProviderNames |->
               [successes |-> 0,
                failures |-> IF n = "OpenAI" THEN 4 ELSE IF n = "OpenAI-Mini" THEN 3 ELSE 0]]
    /\ reenable = [n \in ProviderNames |-> IF n = "OpenAI" THEN 1 ELSE 0]
    /\ calls = {[id |-> 8, type |-> "individual", tokensK |-> 1,
                 complexity |-> "simple", nAvailable |-> 1, attempt |-> 0,
                 tried |-> <<"OpenAI-Mini">>, stale |-> FALSE]}
    /\ lastResult = [id |-> 7, outcome |-> ProviderError, provider |-> NoProvider]
    /\ callCount = 8

InitEnrich ==
    /\ InitBatch({ProductionConfig})
    /\ InitProviders(EnrichKeySets) \/ BreakerAboutToOpen
    /\ InitService(IssueLists, CacheStates, {0, MaxRequests - 1, MaxRequests})
    /\ InitDirect({<<>>})

NextEnrich ==
    \/ EnhanceIssuesWithAI
    \/ \E i \in DOMAIN issues : GetCachedFixReturns(i)
    \/ \E i \in DOMAIN issues : QueryThrows(i)
    \/ \E i \in DOMAIN issues : CacheDemoFixReturns(i)
    \/ \E i \in DOMAIN issues : CheckLimitDeletes(i)
    \/ \E i \in DOMAIN issues : CheckLimitCounts(i)
    \/ \E i \in DOMAIN issues : CheckLimitAllows(i)
    \/ \E i \in DOMAIN issues : AddSettles(i)
    \/ \E i \in DOMAIN issues : CacheFixReturns(i)
    \/ \E i \in DOMAIN issues : CacheFixThrows(i)
    \/ EnhanceReturns
    \/ /\ \E call \in calls : AttemptSucceeds(call)
       /\ UNCHANGED svars
    \/ /\ \E call \in calls : AttemptFails(call)
       /\ UNCHANGED svars
    \/ /\ \E n \in ProviderNames : ReenableFires(n)
       /\ UNCHANGED svars
    \/ /\ \E t \in timers : TimerFires(t)
       /\ UNCHANGED svars
    \/ /\ \E f \in inflight, rt \in FastResponses :
             \E results \in ResultLists(Len(f.batch)) : ProcessorReturns(f, results, rt)
       /\ UNCHANGED svars
    \/ /\ \E f \in inflight, rt \in FastResponses : ProcessorThrows(f, rt)
       /\ UNCHANGED svars

SpecEnrich == InitEnrich /\ [][NextEnrich]_vars

-----------------------------------------------------------------------------
(* The cache under every sequence of up to MaxScript cacheFix and            *)
(* getCachedFix calls made one after another on two fingerprints, while time  *)
(* passes: a millisecond, or a millisecond less than the time to live.       *)

FixTexts == {"fix 1", "fix 2"}

CacheCalls ==
    {Call("cacheFix", h, text) : h \in IssueHashes, text \in FixTexts}
        \cup {Call("getCachedFix", h, "") : h \in IssueHashes}

\* the sequences of at most n calls of the set callSet
Scripts(callSet, n) == UNION {[1..m -> callSet] : m \in 0..n}

InitCache ==
    /\ InitBatch({ProductionConfig})
    /\ InitProviders({{}})
    /\ InitService({<<>>}, CacheStates, {0})
    /\ InitDirect(Scripts(CacheCalls, MaxScript))

NextCache ==
    \/ CacheFixCalled
    \/ CacheFixDone
    \/ GetCachedFixCalled
    \/ GetCachedFixDone
    \/ \E d \in {1, TtlMs - 1} : Tick(d, TtlMs)

SpecCache == InitCache /\ [][NextCache]_vars

-----------------------------------------------------------------------------
(* The fingerprints of two issues: the direct caller writes a fix for each   *)
(* under the generateIssueHash of the issue, as getAIFixForIssue does, then  *)
(* reads the first back, while time passes.                                  *)

\* "missing-alt-text", "<img>", "<a>", "Image missing alt text", "No text"
TypeText == <<109, 105, 115, 115, 105, 110, 103, 45, 97, 108, 116, 45, 116, 101, 120, 116>>
ElementTexts == {<<60, 105, 109, 103, 62>>, <<60, 97, 62>>}
DescriptionTexts ==
    {<<73, 109, 97, 103, 101, 32, 109, 105, 115, 115, 105, 110, 103, 32, 97, 108, 116, 32, 116, 101, 120, 116>>,
     <<78, 111, 32, 116, 101, 120, 116>>}

HashedIssues ==
    {HashedIssue(TypeText, element, description, severity, codeSnippet) :
        element \in ElementTexts, description \in DescriptionTexts,
        severity \in {"high", "low"}, codeSnippet \in FixTexts}

\* the calls a caller makes for the issues: cacheFix for each, as in lines 60
\* and 109 of ai-service.ts, then getCachedFix for the first
HashScript(issueList) ==
    [i \in 1..(Len(issueList) + 1) |->
        IF i <= Len(issueList)
        THEN Call("cacheFix", GenerateIssueHash(issueList[i]), issueList[i].codeSnippet)
        ELSE Call("getCachedFix", GenerateIssueHash(issueList[1]), "")]

InitHash ==
    /\ InitBatch({ProductionConfig})
    /\ InitProviders({{}})
    /\ InitService({<<x, y>> : x, y \in HashedIssues}, {EmptyCache}, {0})
    /\ InitDirect({HashScript(issues)})

SpecHash == InitHash /\ [][NextCache]_vars

-----------------------------------------------------------------------------
(* The rate limiter under up to MaxScript checkLimit calls made one after    *)
(* another, starting empty, one request under its limit or at its limit,     *)
(* while time passes: a millisecond, or a millisecond less than the window.  *)

LimiterCalls == {Call("checkLimit", "", "")}

InitLimiter ==
    /\ InitBatch({ProductionConfig})
    /\ InitProviders({{}})
    /\ InitService({<<>>}, {EmptyCache}, {0, MaxRequests - 1, MaxRequests})
    /\ InitDirect(Scripts(LimiterCalls, MaxScript))

NextLimiter ==
    \/ CheckLimitCalled
    \/ CheckLimitDeleted
    \/ CheckLimitCounted
    \/ CheckLimitRecorded
    \/ \E d \in {1, WindowMs - 1} : Tick(d, WindowMs)

SpecLimiter == InitLimiter /\ [][NextLimiter]_vars

-----------------------------------------------------------------------------
(* An enhanceIssuesWithAI call on one issue or on three issues of different  *)
(* severity, with the OpenAI key configured, healthy databases and a rate    *)
(* limiter far from its limit; the processor of the scheduler is             *)
(* processBatchAIRequests, whose provider calls succeed with every answer of *)
(* Responses or fail.                                                        *)

ProcessIssueLists ==
    { <<TypedIssue("missing-alt-text", "hashA", "low", "snippet A")>>,
      <<TypedIssue("missing-alt-text", "hashA", "low", "snippet A"),
        TypedIssue("heading-hierarchy", "hashB", "high", "snippet B"),
        TypedIssue("non-descriptive-link", "hashC", "medium", "snippet C")>> }

InitProcess ==
    /\ InitBatch({ProductionConfig})
    /\ InitProviders({{"OpenAIKey"}})
    /\ InitService(ProcessIssueLists, {EmptyCache}, {0})
    /\ InitDirect({<<>>})

NextProcess ==
    \/ EnhanceIssuesWithAI
    \/ \E i \in DOMAIN issues : GetCachedFixReturns(i)
    \/ \E i \in DOMAIN issues : CheckLimitDeletes(i)
    \/ \E i \in DOMAIN issues : CheckLimitCounts(i)
    \/ \E i \in DOMAIN issues : CheckLimitAllows(i)
    \/ \E i \in DOMAIN issues : AddSettles(i)
    \/ \E i \in DOMAIN issues : CacheFixReturns(i)
    \/ EnhanceReturns
    \/ /\ \E t \in timers : TimerFires(t)
       /\ UNCHANGED svars
    \/ \E f \in inflight : ProcessBatchAIRequests(f)
    \/ \E w \in work : \E response \in Responses(Len(FlushOf(w).batch)) :
          BatchCallReturns(w, response)
    \/ \E w \in work : BatchCallFails(w)
    \/ \E w \in work : IndividualCallStarts(w)
    \/ \E w \in work, text \in IndividualTexts : IndividualCallReturns(w, text)
    \/ \E w \in work : IndividualCallFails(w)
    \/ \E w \in work, rt \in FastResponses : ProcessorDone(w, rt)

SpecProcess == InitProcess /\ [][NextProcess]_vars

-----------------------------------------------------------------------------
(* Properties of the BatchProcessor *)

\* descending priority, and enqueue order (ids grow with add calls) among equals
PriorityOrdered(q) ==
    \A i, j \in 1..Len(q) :
        i < j => \/ q[i].priority > q[j].priority
                 \/ q[i].priority = q[j].priority /\ q[i].id < q[j].id

\* the flushes started by the current step
Started == inflight' \ inflight

\* the current step is an add call, a timer firing, a batch completion
IsAddStep == Len(promise') = Len(promise) + 1
IsTimerStep == Len(promise') = Len(promise) /\ batchCount' = batchCount /\ timers' # timers
IsCompletionStep == batchCount' = batchCount + 1

\* C1: after every add call and flush the pending queue is in descending
\* priority order with equal priorities in the order they were added, and
\* every flushed batch is a prefix of that queue: the batch followed by what
\* stays queued is the ordered queue, nothing lost or added.
C1_PriorityOrder ==
    [][ /\ PriorityOrdered(queue')
        /\ \A f \in Started :
              /\ PriorityOrdered(f.batch \o queue')
              /\ Range(queue) \subseteq Range(f.batch \o queue')
              /\ Len(f.batch) + Len(queue') =
                     Len(queue) + (Len(promise') - Len(promise)) ]_vars

\* C1 witness: priorities [5, 10, 1, 10] flushed as one batch [10, 10, 5, 1],
\* the two 10s in enqueue order
C1_Witness ==
    \E f \in inflight :
        f.batch = << [id |-> 2, priority |-> 10], [id |-> 4, priority |-> 10],
                     [id |-> 1, priority |-> 5],  [id |-> 3, priority |-> 1] >>

\* every item added so far has been handed to the processor and its promise
\* is resolved or rejected
AllServed ==
    \A i \in DOMAIN promise : promise[i].handed >= 1 /\ promise[i].state # "pending"

C3_SingleFlushInFlight == Cardinality(inflight) <= 1

C5_PositionalResults ==
    [][ \A f \in inflight, rt \in FastResponses :
        \A results \in ResultLists(Len(f.batch)) :
          ProcessorReturns(f, results, rt) =>
              \A i \in 1..Len(f.batch) :
                  LET p == promise'[f.batch[i].id]
                  IN  IF i <= Len(results) /\ results[i] # Undefined
                      THEN p.state = "resolved" /\ p.value = results[i]
                      ELSE p.state = "rejected" /\ p.value = NoResultError ]_vars

\* C5 witness: of one batch, the first item is resolved with its result and
\* the second is rejected for want of a result
C5_Witness ==
    \E i, j \in DOMAIN promise :
        /\ promise[i].state = "resolved" /\ promise[i].value = ResultFor(1)
        /\ promise[j].state = "rejected" /\ promise[j].value = NoResultError
        /\ Len(promise) = 2
        /\ flushCount = 1

-----------------------------------------------------------------------------
(* Properties of the adaptation *)

\* the current step completes a batch and runs adjustBatchParameters; stats'
\* carries the averageResponseTime and errorRate the adjustment reads
AdjustmentRuns == IsCompletionStep /\ batchCount' % config.adjustmentInterval = 0

\* errorRate > maxErrorRate, on the stats the adjustment reads
AdjustsForErrors ==
    AdjustmentRuns /\ stats'.totalErrors * 100 > config.maxErrorRatePct * stats'.totalProcessed

\* averageResponseTime < 0.5 * target and errorRate < 0.5 * maxErrorRate
AdjustsForGoodPerformance ==
    /\ AdjustmentRuns
    /\ 2 * stats'.avgSum < config.targetResponseTimeMs * stats'.avgLen
    /\ stats'.totalErrors * 200 < config.maxErrorRatePct * stats'.totalProcessed

\* C7 (as claimed): an adjustment with errorRate above maxErrorRate strictly
\* decreases currentBatchSize and strictly increases currentDelayMs, from
\* every reachable batch size and delay
C7_StrictOnErrors ==
    [][ AdjustsForErrors =>
          /\ currentBatchSize' < currentBatchSize
          /\ currentDelayMs' > currentDelayMs ]_vars

\* C7 (amended): an adjustment with errorRate above maxErrorRate sets
\* currentBatchSize to max(minBatchSize, floor(0.7 * size)), which is strictly
\* smaller when size > minBatchSize and unchanged at minBatchSize, and sets
\* currentDelayMs to min(maxDelayMs, floor(1.5 * delay)), which is strictly
\* larger when delay < maxDelayMs and unchanged at maxDelayMs.
C7_ClampedOnErrors ==
    [][ AdjustsForErrors =>
          /\ currentBatchSize' = Max(config.minBatchSize, (currentBatchSize * 7) \div 10)
          /\ currentBatchSize > config.minBatchSize => currentBatchSize' < currentBatchSize
          /\ currentBatchSize = config.minBatchSize => currentBatchSize' = currentBatchSize
          /\ currentDelayMs' = Min(config.maxDelayMs, (currentDelayMs * 3) \div 2)
          /\ currentDelayMs < config.maxDelayMs => currentDelayMs' > currentDelayMs
          /\ currentDelayMs = config.maxDelayMs => currentDelayMs' = currentDelayMs ]_vars

\* C7 witness: after adjustments for errors the batch size has reached
\* minBatchSize from above and the delay has grown
C7_Witness ==
    /\ stats.totalErrors * 100 > config.maxErrorRatePct * stats.totalProcessed
    /\ config.initialBatchSize > config.minBatchSize
    /\ currentBatchSize = config.minBatchSize
    /\ currentDelayMs > config.initialDelayMs

\* C8 (as claimed): an adjustment with averageResponseTime below half the
\* target and errorRate below half of maxErrorRate, at a currentBatchSize
\* below maxBatchSize, increases currentBatchSize, never beyond maxBatchSize
C8_GrowsOnGoodPerformance ==
    [][ AdjustsForGoodPerformance /\ currentBatchSize < config.maxBatchSize =>
          /\ currentBatchSize' > currentBatchSize
          /\ currentBatchSize' <= config.maxBatchSize ]_vars

\* C9: with an initial batch size and delay within the configured bounds,
\* minBatchSize <= currentBatchSize <= maxBatchSize and
\* minDelayMs <= currentDelayMs <= maxDelayMs in every reachable state.
C9_WithinBounds ==
    /\ config.minBatchSize <= currentBatchSize
    /\ currentBatchSize <= config.maxBatchSize
    /\ config.minDelayMs <= currentDelayMs
    /\ currentDelayMs <= config.maxDelayMs

\* C9 witness: adjustments have driven the batch size up to maxBatchSize and,
\* in another run, the delay up to maxDelayMs
C9_Witness ==
    \/ currentBatchSize = config.maxBatchSize /\ batchCount >= 2
    \/ currentDelayMs = config.maxDelayMs /\ batchCount >= 3

-----------------------------------------------------------------------------
(* Properties of the AIProviderManager *)

\* C10 (as claimed): one executeWithFallback call makes at most
\* min(3, number of providers available when it started) attempts, and no
\* provider is attempted twice within the call
C10_DistinctAttempts ==
    \A call \in calls :
        /\ Len(call.tried) <= Min(3, call.nAvailable)
        /\ \A i, j \in 1..Len(call.tried) : i # j => call.tried[i] # call.tried[j]

\* the attempt of call that was awaited has failed in this step
AttemptFailed(call) ==
    /\ call \in calls
    /\ \A c \in calls' : c.id # call.id \/ c.attempt # call.attempt
    /\ \A n \in ProviderNames : providerStats'[n].successes = providerStats[n].successes

\* the attempt of call that was awaited has succeeded in this step
AttemptSucceeded(call) ==
    /\ call \in calls
    /\ \A c \in calls' : c.id # call.id
    /\ providerStats'[Last(call.tried)].successes
           = providerStats[Last(call.tried)].successes + 1

\* the attempts that start in this step, each on the provider selected last
NewAttempts ==
    {c \in calls' : \A c0 \in calls : c0.id # c.id \/ c0.attempt # c.attempt}

Failures(pstats) == [n \in ProviderNames |-> pstats[n].failures]

\* C11 (as claimed): a failed attempt raises the failure count of its provider
\* by one and no other; when a call succeeds with provider B after failures,
\* it returns B's name and every other provider A that failed in the call was
\* counted as failed exactly once by the call
C11_FallbackCountsOnce ==
    [][\A call \in calls :
          /\ AttemptFailed(call) =>
                Failures(providerStats')
                    = [Failures(providerStats) EXCEPT ![Last(call.tried)] = @ + 1]
          /\ (AttemptSucceeded(call) /\ Len(call.tried) > 1) =>
                /\ lastResult' = Result(call, "returned", Last(call.tried))
                /\ Failures(providerStats') = Failures(providerStats)
                /\ \A i \in 1..(Len(call.tried) - 1) :
                      call.tried[i] # Last(call.tried) =>
                          Cardinality({j \in 1..(Len(call.tried) - 1) :
                                          call.tried[j] = call.tried[i]}) = 1
      ]_vars

\* C12 (as claimed): a provider the circuit breaker has disabled is not made
\* available by a re-enable timer while the timer of its latest disabling is
\* pending, that is, before the cool-down of that disabling has elapsed;
\* resetProviderAvailability and refreshProviders may make it available
C12_CoolDownRespected ==
    [][\A n \in ProviderNames :
          (~isAvailable[n] /\ isAvailable'[n] /\ reenable'[n] = reenable[n] - 1)
              => reenable[n] = 1
      ]_vars

\* C13: every provider with isAvailable = false has a pending re-enable timer,
\* and every disabled provider becomes available again
C13_DisabledHasTimer ==
    /\ [](\A n \in ProviderNames : ~isAvailable[n] => reenable[n] > 0)
    /\ \A n \in ProviderNames : (~isAvailable[n]) ~> isAvailable[n]

\* a provider is disabled while a call awaits it and its timer is pending
C13_Witness ==
    \E n \in ProviderNames : ~isAvailable[n] /\ reenable[n] = 1 /\ calls # {}

\* C14: an executeWithFallback call made while no provider of its class is
\* available starts no attempt; it ends at once with 'No AI providers
\* available', which is not the error of a failed attempt, and leaves the
\* stats, the availability and the timers of every provider as they were
C14_NoProvidersFailsAtOnce ==
    [][callCount' = callCount + 1 =>
          /\ \A c \in calls' \ calls :
                AvailableProviders(isAvailable, c.type) # {}
          /\ calls' = calls =>
                /\ \E type \in RequestTypes : AvailableProviders(isAvailable, type) = {}
                /\ lastResult'.id = callCount'
                /\ lastResult'.outcome = NoProvidersError
                /\ lastResult'.outcome # ProviderError
                /\ UNCHANGED <<providerStats, isAvailable, reenable>>
      ]_vars

\* the call made last has ended with 'No AI providers available': a class of
\* providers has none available
C14_Witness ==
    /\ lastResult.outcome = NoProvidersError
    /\ lastResult.id = callCount
    /\ \E type \in RequestTypes : AvailableProviders(isAvailable, type) = {}

\* the cheapest variants
Cheapest(n) ==
    ProviderTable[n].mini \/ ProviderTable[n].haiku \/ ProviderTable[n].flash

\* C15 (as claimed): the provider selectProvider returns is available and can
\* hold the estimated tokens (so that it returns none when no available
\* provider can hold them)
C15_WithinTokenLimit ==
    [][\A c \in NewAttempts :
          /\ isAvailable'[Last(c.tried)]
          /\ WithinTokenLimit(Last(c.tried), c.tokensK)
      ]_vars

\* C16: the provider selectProvider returns is a candidate left after
\* filtering, no candidate has a lower score, and every other candidate of
\* equal score has a higher priority number
C16_LowestScore ==
    [][\A c \in NewAttempts :
          LET selected == Last(c.tried)
              candidates == SuitableProviders(isAvailable', c.type, c.tokensK,
                                              c.complexity)
          IN  /\ selected \in candidates
              /\ \A m \in candidates \ {selected} :
                    /\ ~ScoreLess(providerStats', m, selected, c.tokensK)
                    /\ ~ScoreLess(providerStats', selected, m, c.tokensK) =>
                          ProviderTable[selected].priority < ProviderTable[m].priority
      ]_vars

\* OpenAI is selected after Google failed, with the score of Anthropic equal to
\* its own and that of Google higher
C16_Witness ==
    \E c \in calls :
        /\ c.tried = <<"Google", "OpenAI">>
        /\ isAvailable["Anthropic"] /\ isAvailable["Google"]
        /\ ~ScoreLess(providerStats, "OpenAI", "Anthropic", c.tokensK)
        /\ ~ScoreLess(providerStats, "Anthropic", "OpenAI", c.tokensK)
        /\ ScoreLess(providerStats, "OpenAI", "Google", c.tokensK)

\* C17 (as claimed): when an available provider within the token limit is one
\* of the cheapest variants, the provider returned for 'simple' is one of
\* them; when one is none of the cheapest variants, the provider returned for
\* 'complex' is none of them
C17_ComplexityFilter ==
    [][\A c \in NewAttempts :
          LET within == {n \in AvailableProviders(isAvailable', c.type) :
                            WithinTokenLimit(n, c.tokensK)}
          IN  /\ (c.complexity = "simple" /\ \E n \in within : Cheapest(n))
                     => Cheapest(Last(c.tried))
              /\ (c.complexity = "complex" /\ \E n \in within : ~Cheapest(n))
                     => ~Cheapest(Last(c.tried))
      ]_vars

-----------------------------------------------------------------------------
(* Properties of enhanceIssuesWithAI *)

\* getAIFixForIssue of issue i fails in this step: it rejects, or it returns
\* null after a rejection of the scheduler or a failed cache write
OperationFails(i) ==
    /\ pc[i] \notin Settled
    /\ \/ pc'[i] = "rejected"
       \/ pc'[i] = "returnedNull" /\ pc[i] \in {"add", "cacheFix"}

\* C18: enhanceIssuesWithAI returns only when the operation of every issue has
\* settled, it never ends otherwise, and the failure of the operation of one
\* issue keeps the code snippet of that issue and leaves the other issues and
\* their operations as they are
C18_FailuresAreIsolated ==
    [][/\ run' \in {"idle", "waiting", "returned"}
       /\ (run = "waiting" /\ run' = "returned") =>
             \A i \in DOMAIN issues : pc[i] \in Settled
       /\ \A i \in DOMAIN issues :
             OperationFails(i) =>
                 /\ issues' = issues
                 /\ run' = run
                 /\ \A j \in DOMAIN issues \ {i} : pc'[j] = pc[j]
      ]_vars

\* the call has returned; the first issue, neither cached nor denied, kept its
\* snippet after a failure, the second one carries the fix of the processor
C18_Witness ==
    /\ run = "returned"
    /\ Len(issues) = 2
    /\ pc[1] \in {"rejected", "returnedNull"}
    /\ Len(recorded) < MaxRequests
    /\ issues[1].codeSnippet = "snippet A"
    /\ pc[2] = "returned"
    /\ issues[2].codeSnippet = ResultFor(1)

\* the enhanceIssuesWithAI call ends in this step without any getAIFixForIssue call
EndsWithoutLookup == run = "idle" /\ run' = "returned" /\ Len(issues) > 0

\* C19 (as claimed): an issue whose fingerprint has a live cache entry gets the
\* cached fix, whether the call ends for want of a provider or looks the
\* fingerprint up; the look-up that hits records no request at the rate
\* limiter and adds nothing to the scheduler
C19_CachedFixApplied ==
    [][\A i \in DOMAIN issues :
          LET cachedFix == GetCachedFix(issues[i].issueHash, now)
          IN  /\ (EndsWithoutLookup /\ cachedFix # Null) =>
                    issues'[i].codeSnippet = cachedFix
              /\ (pc[i] = "getCachedFix" /\ pc'[i] = "returned") =>
                    /\ issues'[i].codeSnippet = cachedFix
                    /\ recorded' = recorded
                    /\ promise' = promise
                    /\ queue' = queue
      ]_vars

\* C20 (as claimed): when the call ends for want of a provider, every issue
\* without a live cache entry gets the demo fix and the demo fix is in the
\* cache under its fingerprint
C20_DemoFixCached ==
    [][\A i \in DOMAIN issues :
          (EndsWithoutLookup /\ GetCachedFix(issues[i].issueHash, now) = Null) =>
              /\ issues'[i].codeSnippet = DEMO_FIX
              /\ \E r \in cache' : r.issueHash = issues[i].issueHash /\ r.text = DEMO_FIX
      ]_vars

\* the requests recorded within the window [at - WindowMs, at]
InWindow(rows, at) ==
    {k \in 1..Len(rows) : at - WindowMs <= rows[k] /\ rows[k] <= at}

\* C21: when the rate limiter denies the request of an issue (its window
\* already holds maxRequests requests), getAIFixForIssue returns null, which is
\* no error: the code snippets stay as they are, nothing is added to the
\* scheduler, nothing is written to the cache and no request is recorded
C21_DenialLeavesIssue ==
    [][\A i \in DOMAIN issues :
          (/\ pc[i] = "countRequests"
           /\ pc'[i] \notin {"countRequests", "rejected"}
           /\ Cardinality(InWindow(recorded, askedAt[i])) >= MaxRequests)
          => /\ pc'[i] = "returnedNull"
             /\ issues' = issues
             /\ queue' = queue
             /\ promise' = promise
             /\ cache' = cache
             /\ recorded' = recorded
      ]_vars

\* the call has returned; the only issue was denied by the rate limiter at its
\* limit, it was never added to the scheduler and keeps its snippet
C21_Witness ==
    /\ run = "returned"
    /\ Len(issues) = 1
    /\ pc[1] = "returnedNull"
    /\ promiseOf[1] = 0
    /\ Len(recorded) = MaxRequests
    /\ issues[1].codeSnippet = "snippet A"
    /\ cache = {}

\* C22: with no provider configured, enhanceIssuesWithAI on a non-empty list
\* returns at once, without throwing, and every issue carries the demo fix,
\* which is not blank
C22_NoProviderStillFixes ==
    [][(keys = {} /\ run = "idle" /\ run' # "idle" /\ Len(issues) > 0)
          => /\ run' = "returned"
             /\ \A i \in DOMAIN issues :
                    /\ issues'[i].codeSnippet = DEMO_FIX
                    /\ issues'[i].codeSnippet \notin BlankTexts
      ]_vars

\* the call on two issues has returned with no key configured; both issues
\* carry the demo fix
C22_Witness ==
    /\ keys = {}
    /\ run = "returned"
    /\ Len(issues) = 2
    /\ \A i \in DOMAIN issues : issues[i].codeSnippet = DEMO_FIX

-----------------------------------------------------------------------------
(* Properties of the cache and of the rate limiter *)

\* the rows of ai_fixes with this fingerprint
EntriesOf(rows, issueHash) == {r \in rows : r.issueHash = issueHash}

C25_WitnessFresh ==
    /\ reply.op = "getCachedFix"
    /\ \E r \in EntriesOf(cache, reply.issueHash) :
          /\ reply.at - r.createdAt = TtlMs - 1
          /\ reply.text = r.text

\* C26: cacheFix is an upsert: once it has run, the store holds exactly one
\* entry for the fingerprint, with the text and the time of this call, a read
\* of the fingerprint finds this entry only, and the entries of the other
\* fingerprints are as before
C26_Upsert ==
    [][(direct.op = "cacheFix" /\ direct'.op = "none")
          => LET written == FixRow(ThisCall.issueHash, ThisCall.text, direct.at)
             IN  /\ EntriesOf(cache', ThisCall.issueHash) = {written}
                 /\ LiveRows(cache', ThisCall.issueHash, direct.at - TtlMs) = {written}
                 /\ \A h \in IssueHashes \ {ThisCall.issueHash} :
                       EntriesOf(cache', h) = EntriesOf(cache, h)
      ]_vars

\* cacheFix(hashA, "fix 1") and then cacheFix(hashA, "fix 2") have run, the
\* second one later than the first; the store holds the second text with the
\* time of the second call
C26_Witness ==
    /\ script = <<Call("cacheFix", "hashA", "fix 1"), Call("cacheFix", "hashA", "fix 2")>>
    /\ direct.k = 2
    /\ direct.op = "none"
    /\ direct.at > 1
    /\ cache = {FixRow("hashA", "fix 2", direct.at)}

\* C27: of checkLimit calls made one after another, a call is allowed exactly
\* when fewer than maxRequests requests are recorded within the window that
\* ends at the time of the call; an allowed call records one request, at the
\* time of the call, and returns maxRequests less the count less one as
\* remaining; a denied call records nothing and returns 0 as remaining
C27_CheckLimit ==
    [][(direct.op \in {"count", "insert"} /\ direct'.op = "none")
          => LET count == Cardinality(InWindow(recorded, direct.at))
             IN  /\ reply'.allowed <=> count < MaxRequests
                 /\ reply'.allowed =>
                       /\ recorded' = Append(recorded, direct.at)
                       /\ reply'.remaining = MaxRequests - count - 1
                 /\ ~reply'.allowed =>
                       /\ recorded' = recorded
                       /\ reply'.remaining = 0
      ]_vars

\* an allowed call has recorded, a millisecond after the 49 requests before
\* it, the last request the limit admits
C27_Witness ==
    /\ reply.op = "checkLimit"
    /\ reply.allowed
    /\ reply.remaining = 0
    /\ reply.at > 0
    /\ Len(recorded) = MaxRequests
    /\ recorded[Len(recorded)] = reply.at

\* an allowed call has found the 50 requests of the window before expired
C27_WitnessExpired ==
    /\ reply.op = "checkLimit"
    /\ reply.allowed
    /\ reply.remaining = MaxRequests - 1
    /\ reply.at > WindowMs
    /\ recorded = <<reply.at>>

\* a call has been denied at the limit
C27_WitnessDenied ==
    /\ reply.op = "checkLimit"
    /\ ~reply.allowed
    /\ reply.at > 0
    /\ Cardinality(InWindow(recorded, reply.at)) = MaxRequests

\* C28 (as claimed): under every interleaving of the operations of the issues
\* of an enhanceIssuesWithAI call, no window of windowMs holds more than
\* maxRequests recorded requests
C28_LimitNeverExceeded ==
    \A k \in 1..Len(recorded) :
        Cardinality(InWindow(recorded, recorded[k])) <= MaxRequests

\* C23: when processBatchAIRequests returns the results parsed from the text
\* of a provider, the promise of every item of the batch is resolved: with the
\* trimmed text of the section at the position of the item when there is such
\* a section and it is not blank, and otherwise with the code snippet of the
\* issue of the item, which is not empty
C23_DefaultFixForMissingSection ==
    [][\A w \in work :
          (w.stage = "parsed" /\ w \notin work')
          => LET batch == FlushOf(w).batch
                 sections == Tail(Split(w.response))
             IN  \A k \in 1..Len(batch) :
                    LET settled == promise'[batch[k].id]
                        default == RequestsOf(batch)[k].codeSnippet
                    IN  /\ settled.state = "resolved"
                        /\ settled.value # ""
                        /\ (k > Len(sections) \/ Trim(sections[k]) = "")
                              => settled.value = default
                        /\ (k <= Len(sections) /\ Trim(sections[k]) # "")
                              => settled.value = Trim(sections[k])
      ]_vars

\* a batch of the three issues was answered with two sections: the promises of
\* the issues of high and medium severity are resolved with the two sections,
\* the promise of the third item of the batch, the issue of low severity, with
\* the code snippet of that issue
C23_Witness ==
    /\ Len(issues) = 3
    /\ flushCount = 1
    /\ \A i \in DOMAIN issues :
          /\ promiseOf[i] # 0
          /\ promise[promiseOf[i]].state = "resolved"
    /\ promise[promiseOf[2]].value = FixText(1)
    /\ promise[promiseOf[3]].value = FixText(2)
    /\ promise[promiseOf[1]].value = "snippet A"

\* C24 (as claimed): whatever the cache backend answers, a read of the cache
\* that is no hit sends the issue on to the provider path (or to the demo
\* fix), and once the scheduler has delivered a fix, the write to the cache,
\* failed or not, is followed by the fix being applied to the issue
C24_CacheFailureIsMiss ==
    [][\A i \in DOMAIN issues :
          /\ (pc[i] = "getCachedFix" /\ pc'[i] # pc[i])
                => pc'[i] \in {"returned", "checkLimit", "cacheDemoFix"}
          /\ (pc[i] = "cacheFix" /\ pc'[i] # pc[i] /\ fixOf[i] \notin BlankTexts)
                => issues'[i].codeSnippet = fixOf[i]
      ]_vars

-----------------------------------------------------------------------------
(* Properties of the timers of the BatchProcessor *)

\* C29: whenever the queue is not empty, a flush is in flight or a flush timer
\* is pending
C29_QueuedWorkIsScheduled ==
    Len(queue) > 0 => (inflight # {} \/ timers # {})

\* after a flush that left items behind, items wait in the queue with no flush
\* in flight: the timer armed at the end of the flush is pending
C29_Witness ==
    /\ Len(queue) > 0
    /\ inflight = {}
    /\ flushCount > 0
    /\ batchCount = flushCount
    /\ \E t \in timers : t.id = timeoutId

\* C30 (as claimed): at most one flush timer is pending at any time, and
\* timeoutId, when it is not null, identifies it
C30_OneTimer ==
    /\ Cardinality(timers) <= 1
    /\ timeoutId # NoTimer => \E t \in timers : t.id = timeoutId

-----------------------------------------------------------------------------
(* Properties of the batches of the BatchProcessor *)

\* the number of places item i waits in: positions of the queue and batches
\* in flight
PlacesOf(i) ==
    Cardinality({k \in 1..Len(queue) : queue[k].id = i})
        + Cardinality({f \in inflight : \E k \in 1..Len(f.batch) : f.batch[k].id = i})

\* C31: every item passed to add is handed to the processor in at most one
\* batch, also while several flushes are in flight: it is in the queue until
\* it is handed over, then in exactly one batch until that batch completes,
\* and its promise is settled at most once, by that batch.
C31_OneBatchPerItem ==
    \A i \in DOMAIN promise :
        /\ promise[i].handed <= 1
        /\ promise[i].settled <= 1
        /\ PlacesOf(i) <= 1
        /\ promise[i].handed = 0 <=> \E k \in 1..Len(queue) : queue[k].id = i
        /\ promise[i].state = "pending" <=> PlacesOf(i) = 1
        /\ promise[i].state # "pending" => promise[i].settled = 1

\* C31 witness: two flushes were in flight at once; the batch of one is
\* settled while the other is still in flight and an item waits in the queue
C31_Witness ==
    /\ Cardinality(inflight) = 1
    /\ flushCount = 2
    /\ batchCount = 1
    /\ \E f \in inflight : f.fid = 1
    /\ Len(queue) = 1
    /\ \E i \in DOMAIN promise : promise[i].settled = 1

\* the item and the resolver at every index belong to the same add call
Aligned(items, rs) ==
    /\ Len(items) = Len(rs)
    /\ \A k \in 1..Len(items) :
          /\ items[k].priority = rs[k].priority
          /\ items[k].id = rs[k].id

\* C39: queue and resolvers always have equal length and, at every index, the
\* item and the resolver of the same add call, hence equal priority; the same
\* holds of the batch and the resolvers a flush took out of them, so the
\* promise of an item is settled by the resolver at the position of the item.
C39_QueueAndResolversAligned ==
    /\ Aligned(queue, resolvers)
    /\ \A f \in inflight : Aligned(f.batch, f.resolvers)

\* C39 witness: after a flush, three items wait in the queue, one of them
\* inserted ahead of an item added before it
C39_Witness ==
    /\ flushCount >= 1
    /\ Len(queue) = 3
    /\ Len(resolvers) = 3
    /\ \E k \in 1..2 : queue[k].id > queue[k + 1].id

-----------------------------------------------------------------------------
(* Properties of the adaptation under the production configuration *)

-----------------------------------------------------------------------------
(* Properties of the circuit breaker's threshold *)

-----------------------------------------------------------------------------
(* Properties of the batch prompt and of its answer *)

\* the order in which createBatchPrompt numbers the issues of every batch in
\* flight is the order of the requests of the batch
PromptOrderIsBatchOrder ==
    \A f \in inflight : SortedIssues(RequestsOf(f.batch)) = RequestsOf(f.batch)

\* C34 (as claimed): for every batch flushed the order in which
\* createBatchPrompt numbers the issues is the order of the requests, and the
\* k-th parsed result belongs to the issue it was generated for: it is what
\* the answer holds under the marker ISSUE_k, or else the code snippet of the
\* k-th request itself
C34_ResultsBelongToIssues ==
    /\ PromptOrderIsBatchOrder
    /\ \A w \in work :
          w.stage = "parsed" =>
              \A k \in 1..Len(w.results) :
                  \/ \E j \in 1..Len(w.response.parts) :
                        /\ w.response.parts[j].n = k
                        /\ w.results[k] = Trim(w.response.parts[j].text)
                  \/ w.results[k] = RequestsOf(FlushOf(w).batch)[k].codeSnippet

-----------------------------------------------------------------------------
(* Properties of the processor wired into the scheduler *)

\* C35: whatever the providers answer and however their calls fail,
\* processBatchAIRequests ends by returning one defined result per request of
\* its batch; hence the scheduler counts no error, its error rate is never
\* above maxErrorRate, so that no adjustment takes the error-rate branch, and
\* it rejects no promise.
C35_ProcessorNeverFails ==
    /\ \A w \in work :
          w.stage \in {"parsed", "done"} =>
              /\ Len(w.results) = Len(FlushOf(w).batch)
              /\ \A k \in 1..Len(w.results) : w.results[k] # Undefined
    /\ stats.totalErrors = 0
    /\ ~ErrorRateHigh(stats)
    /\ AdjustBranch(stats) # "error"
    /\ \A i \in DOMAIN promise : promise[i].state # "rejected"

\* C35 witness: the batch call and then the individual call of a batch have
\* failed on every provider, and the promise of the item is resolved, with
\* the code snippet of its issue
C35_Witness ==
    /\ batchCount = 1
    /\ callCount = 2
    /\ lastResult = [id |-> 2, outcome |-> ProviderError, provider |-> NoProvider]
    /\ providerStats["OpenAI"].failures >= 1
    /\ \E i \in DOMAIN promise :
          /\ promise[i].state = "resolved"
          /\ promise[i].value = "snippet A"

\* a batch of three requests was answered with fewer sections than requests
\* and every promise of the batch is resolved
C35_WitnessShortAnswer ==
    /\ batchCount = 1
    /\ Len(promise) = 3
    /\ \A i \in DOMAIN promise : promise[i].state = "resolved"
    /\ \E i \in DOMAIN promise : promise[i].value = "snippet A"
    /\ \E i \in DOMAIN promise : promise[i].value = FixText(1)

-----------------------------------------------------------------------------
(* Properties of the rules of adjustBatchParameters *)

\* C36: an adjustment applies the first rule that matches, in this order,
\* on the errorRate and averageResponseTime of the stats it reads:
\* errorRate > maxErrorRate: size max(minBatchSize, floor(0.7 * size)),
\* delay min(maxDelayMs, floor(1.5 * delay)); else averageResponseTime >
\* target: size max(minBatchSize, floor(0.8 * size)), delay unchanged; else
\* averageResponseTime < 0.5 * target and errorRate < 0.5 * maxErrorRate:
\* size min(maxBatchSize, floor(1.2 * size)), delay max(minDelayMs,
\* floor(0.9 * delay)); otherwise size and delay unchanged.
C36_FirstMatchingRule ==
    [][ AdjustmentRuns =>
          LET errors == stats'.totalErrors
              processed == stats'.totalProcessed
              sum == stats'.avgSum
              len == stats'.avgLen
              size == currentBatchSize
              delay == currentDelayMs
          IN  IF errors * 100 > config.maxErrorRatePct * processed
              THEN /\ currentBatchSize' = Max(config.minBatchSize, (size * 7) \div 10)
                   /\ currentDelayMs' = Min(config.maxDelayMs, (delay * 3) \div 2)
              ELSE IF sum > config.targetResponseTimeMs * len
              THEN /\ currentBatchSize' = Max(config.minBatchSize, (size * 8) \div 10)
                   /\ currentDelayMs' = delay
              ELSE IF /\ 2 * sum < config.targetResponseTimeMs * len
                      /\ errors * 200 < config.maxErrorRatePct * processed
              THEN /\ currentBatchSize' = Min(config.maxBatchSize, (size * 12) \div 10)
                   /\ currentDelayMs' = Max(config.minDelayMs, (delay * 9) \div 10)
              ELSE /\ currentBatchSize' = size
                   /\ currentDelayMs' = delay ]_vars

\* C36 witness: the first batch of a scheduler that starts at size 7 and
\* delay 1000 and adjusts after every batch has thrown after 20000 ms; the
\* rule for errors and the rule for slowness both match, and the rule for
\* errors was applied: size floor(0.7 * 7) = 4, not floor(0.8 * 7) = 5, and
\* delay 1500
C36_Witness ==
    /\ batchCount = 1
    /\ config.initialBatchSize = 7
    /\ ErrorRateHigh(stats)
    /\ ResponseSlow(stats)
    /\ currentBatchSize = 4
    /\ currentDelayMs = 1500

\* an adjustment has run that matched no rule: no error, and an average
\* response time of 12500 ms, between half the target and the target
C36_WitnessNoRule ==
    /\ batchCount = 2
    /\ config.adjustmentInterval = 1
    /\ AdjustBranch(stats) = "none"
    /\ stats.totalErrors = 0
    /\ responseTimes = <<5000, 20000>>

\* C37: currentBatchSize and currentDelayMs change only in a step that
\* completes a batch and brings batchCount to a multiple of
\* adjustmentInterval; add calls, timer firings and the other batch
\* completions leave both as they are.
C37_ChangedOnlyByAdjustment ==
    [][ /\ (currentBatchSize' # currentBatchSize \/ currentDelayMs' # currentDelayMs)
            => AdjustmentRuns
        /\ (IsAddStep \/ IsTimerStep \/ (IsCompletionStep /\ ~AdjustmentRuns))
            => /\ currentBatchSize' = currentBatchSize
               /\ currentDelayMs' = currentDelayMs ]_vars

\* C37 witness: with the production configuration the third batch completed
\* after errors and its adjustment reduced the size and raised the delay; the
\* fourth batch has completed, with errors still, and changed neither
C37_Witness ==
    /\ config = ProductionConfig
    /\ batchCount = 4
    /\ ErrorRateHigh(stats)
    /\ currentBatchSize = 2
    /\ currentDelayMs = 3000

-----------------------------------------------------------------------------
(* Properties of the fingerprint *)

\* no two requests of the items have the same fingerprint
DistinctFingerprints(items) ==
    \A j, k \in 1..Len(items) :
        j # k => RequestsOf(items)[j].issueHash # RequestsOf(items)[k].issueHash

\* C38 (as claimed): at no time does the queue of the scheduler or a batch it
\* has flushed hold two requests with the same fingerprint
C38_NoDuplicateFingerprint ==
    /\ DistinctFingerprints(queue)
    /\ \A f \in inflight : DistinctFingerprints(f.batch)

\* the issues at i and j are equal in type, element and description
SameIssue(i, j) ==
    /\ issues[i].type = issues[j].type
    /\ issues[i].element = issues[j].element
    /\ issues[i].description = issues[j].description

\* the last issue equal to the issue at i in type, element and description:
\* the fix of that one is written last under the fingerprint
LastSame(i) ==
    CHOOSE j \in DOMAIN issues :
        SameIssue(i, j) /\ \A k \in DOMAIN issues : SameIssue(i, k) => k <= j

\* the direct caller's write for the issue at j has completed
Written(j) == direct.k > j \/ (direct.k = j /\ direct.op = "none")

\* C40: two issues equal in type, element and description have the same
\* fingerprint, whatever their severity and fix text, and share one cache
\* entry: the cache never holds two rows under their fingerprint, once a fix
\* was written for each the row holds the fix written last, and a lookup for
\* the first issue made while the row is younger than the time to live
\* returns that fix.
C40_FingerprintOfThreeFields ==
    \A i, j \in DOMAIN issues :
        (i < j /\ SameIssue(i, j)) =>
            /\ GenerateIssueHash(issues[i]) = GenerateIssueHash(issues[j])
            /\ Cardinality(EntriesOf(cache, GenerateIssueHash(issues[i]))) <= 1
            /\ Written(LastSame(i)) =>
                  \A r \in EntriesOf(cache, GenerateIssueHash(issues[i])) :
                      r.text = issues[LastSame(i)].codeSnippet
            /\ (i = 1 /\ reply.op = "getCachedFix") =>
                  \A r \in EntriesOf(cache, GenerateIssueHash(issues[i])) :
                      reply.at - r.createdAt < TtlMs =>
                          reply.text = issues[LastSame(i)].codeSnippet

\* C40 witness: two issues equal in type, element and description but of
\* different severity and fix text were written at different times; the
\* cache holds one row, and the lookup for the first issue has returned the
\* fix of the second
C40_Witness ==
    /\ Len(issues) = 2
    /\ SameIssue(1, 2)
    /\ issues[1].severity # issues[2].severity
    /\ issues[1].codeSnippet # issues[2].codeSnippet
    /\ Cardinality(cache) = 1
    /\ \E r \in cache : r.createdAt > 0
    /\ reply.op = "getCachedFix"
    /\ reply.text = issues[2].codeSnippet

\* two issues that differ in their description have different fingerprints
\* and a cache row each
C40_WitnessDistinct ==
    /\ Len(issues) = 2
    /\ issues[1].description # issues[2].description
    /\ GenerateIssueHash(issues[1]) # GenerateIssueHash(issues[2])
    /\ Cardinality(cache) = 2

====
